---- MODULE Spec2Model ----
(***************************************************************************)
(* Model of src/src/lifecycle_config.py: the CloudFormation custom         *)
(* resource handler lambda_handler for a SageMaker Studio lifecycle        *)
(* configuration, with its helpers create_lifecycle_config,                *)
(* delete_lifecycle_config, update_domain, send_success and send_failure.  *)
(*                                                                         *)
(* One invocation is a process p: every control-plane call of the handler  *)
(* is one step, and so is the HTTP request of cfnresponse.send, so that    *)
(* invocations can interleave at the calls and before the send.  The       *)
(* control plane (boto3 "sagemaker" client) is the environment: its state  *)
(* is the set of lifecycle configurations and the Docker setting of each   *)
(* domain; each call may also raise an unrelated client error,             *)
(* describe_domain may answer with any of the seven domain statuses, and   *)
(* a list call answers with the first page of the configurations.          *)
(*                                                                         *)
(* Strings the code only copies or concatenates are TLA+ strings; a string  *)
(* the code inspects character by character (the argument of int() and of  *)
(* .lower(), and what they return or raise) is the sequence of the code     *)
(* points of its characters, ord(c) for each character c, so "Ab" is        *)
(* <<65, 98>>.  An optional value (None in Python) is the empty sequence,   *)
(* a present value x is <<x>>.                                              *)
(***************************************************************************)
EXTENDS Integers, Sequences, FiniteSets, TLC

VARIABLES
    pc,                    \* position of each invocation in lambda_handler
    event,                 \* the event of the invocation
    domain_id,             \* local of lambda_handler (line 100)
    lifecycle_config_name, \* local of lambda_handler (line 101)
    idle_mins,             \* local of lambda_handler (line 102)
    physical_resource_id,  \* local of lambda_handler (line 104)
    lcc,                   \* content assembled by create_lifecycle_config
    res,                   \* result of the create or describe call (its ARN)
    status,                \* status last read by update_domain's loop
    calls,                 \* control-plane calls made by the invocation
    out,                   \* arguments of the cfnresponse.send call being made
    sent,                  \* notifications cfnresponse.send has delivered
    raised,                \* exception that left lambda_handler, if any
    prev,                  \* outcome of the previous delivery of the event
    start,                 \* the invocation's resources as they were when it began
                           \* (and, for a Delete, how many configurations there were)
    overlap,               \* whether an invocation for the same resources ran since entry
    configs,               \* control plane: existing lifecycle configurations
    docker,                \* control plane: EnableDockerAccess of each domain
    created                \* engine: the resource the last successful Create made

locals == <<domain_id, lifecycle_config_name, idle_mins, physical_resource_id, start,
            overlap>>
plane == <<configs, docker>>
vars == <<pc, event, domain_id, lifecycle_config_name, idle_mins,
          physical_resource_id, lcc, res, status, calls, out, sent, raised, prev,
          start, overlap, configs, docker, created>>

----------------------------------------------------------------------------
(* Bounds and input sets *)

\* describe_domain answers a non-terminal status at most MaxPolls times
MaxPolls == 2

\* an event is delivered again at most MaxRedeliveries times
MaxRedeliveries == 1

\* the control plane puts at most PageSize configurations on one page of a
\* list answer (the list call of line 128 passes no MaxResults)
PageSize == 1

Procs == {1, 2}
SerialProcs == {1}

None == <<>>
Some(x) == <<x>>

DomainIds == {"d-1", "d-2"}
\* "A", "a", "b"
RawNames == {<<65>>, <<97>>, <<98>>}
\* "0", "5", "05", "12", "x"
RawMinutes == {<<48>>, <<53>>, <<48, 53>>, <<49, 50>>, <<120>>}
RequestTypes == {"Create", "Update", "Delete", "Replace"}
PriorIds == {None} \cup {Some(d \o "_" \o m) : d \in DomainIds, m \in {"0", "5"}}

\* the two resources of interleaved invocations: a domain and a configuration
ConcResources == {<<"d-1", <<97>>>>, <<"d-2", <<98>>>>}

\* the events of interleaved invocations: well-formed, for these resources
ConcEvents ==
    {[RequestType |-> t,
      ResourceProperties |-> [DomainId |-> r[1],
                              LifecycleConfigName |-> r[2],
                              AutoStopIdleTimeInMinutes |-> <<53>>],
      PhysicalResourceId |-> IF t = "Create" THEN None ELSE Some(r[1] \o "_5")] :
        t \in {"Create", "Update", "Delete"}, r \in ConcResources}

Events ==
    [RequestType : RequestTypes,
     ResourceProperties : [DomainId : DomainIds,
                           LifecycleConfigName : RawNames,
                           AutoStopIdleTimeInMinutes : RawMinutes],
     PhysicalResourceId : PriorIds]

\* 'Deleting'|'Failed'|'InService'|'Pending'|'Updating'|'Update_Failed'|'Delete_Failed'
DomainStatuses ==
    {"Deleting", "Failed", "InService", "Pending", "Updating", "Update_Failed",
     "Delete_Failed"}

----------------------------------------------------------------------------
(* Pure helpers *)

\* whether the code point c lies in one of the ranges <<first, last>> of the
\* table runs, which is in ascending order (searched by halves)
RECURSIVE InRunsBetween(_, _, _, _)
InRunsBetween(c, runs, lo, hi) ==
    IF lo > hi THEN FALSE
    ELSE LET mid == (lo + hi) \div 2
         IN  IF c < runs[mid][1] THEN InRunsBetween(c, runs, lo, mid - 1)
             ELSE IF c > runs[mid][2] THEN InRunsBetween(c, runs, mid + 1, hi)
             ELSE TRUE

InRuns(c, runs) == InRunsBetween(c, runs, 1, Len(runs))

\* the strings of ss one after the other, by halves
RECURSIVE Concat(_)
Concat(ss) ==
    IF ss = <<>> THEN <<>>
    ELSE IF Len(ss) = 1 THEN ss[1]
    ELSE Concat(SubSeq(ss, 1, Len(ss) \div 2))
         \o Concat(SubSeq(ss, Len(ss) \div 2 + 1, Len(ss)))

\* the characters str.lower() replaces by one other character, as runs
\* <<first, last, step, delta>>: every step-th code point from first to last
\* becomes the code point delta above it (Unicode 14.0, as in CPython 3.11)
LowerRuns ==
    <<<<65, 90, 1, 32>>, <<192, 214, 1, 32>>, <<216, 222, 1, 32>>, <<256, 302, 2, 1>>, <<306, 310,
      2, 1>>, <<313, 327, 2, 1>>, <<330, 374, 2, 1>>, <<376, 376, 1, -121>>, <<377, 381, 2, 1>>,
      <<385, 385, 1, 210>>, <<386, 388, 2, 1>>, <<390, 390, 1, 206>>, <<391, 391, 1, 1>>, <<393,
      394, 1, 205>>, <<395, 395, 1, 1>>, <<398, 398, 1, 79>>, <<399, 399, 1, 202>>, <<400, 400, 1,
      203>>, <<401, 401, 1, 1>>, <<403, 403, 1, 205>>, <<404, 404, 1, 207>>, <<406, 406, 1, 211>>,
      <<407, 407, 1, 209>>, <<408, 408, 1, 1>>, <<412, 412, 1, 211>>, <<413, 413, 1, 213>>, <<415,
      415, 1, 214>>, <<416, 420, 2, 1>>, <<422, 422, 1, 218>>, <<423, 423, 1, 1>>, <<425, 425, 1,
      218>>, <<428, 428, 1, 1>>, <<430, 430, 1, 218>>, <<431, 431, 1, 1>>, <<433, 434, 1, 217>>,
      <<435, 437, 2, 1>>, <<439, 439, 1, 219>>, <<440, 440, 1, 1>>, <<444, 444, 1, 1>>, <<452,
      452, 1, 2>>, <<453, 453, 1, 1>>, <<455, 455, 1, 2>>, <<456, 456, 1, 1>>, <<458, 458, 1, 2>>,
      <<459, 475, 2, 1>>, <<478, 494, 2, 1>>, <<497, 497, 1, 2>>, <<498, 500, 2, 1>>, <<502, 502,
      1, -97>>, <<503, 503, 1, -56>>, <<504, 542, 2, 1>>, <<544, 544, 1, -130>>, <<546, 562, 2,
      1>>, <<570, 570, 1, 10795>>, <<571, 571, 1, 1>>, <<573, 573, 1, -163>>, <<574, 574, 1,
      10792>>, <<577, 577, 1, 1>>, <<579, 579, 1, -195>>, <<580, 580, 1, 69>>, <<581, 581, 1,
      71>>, <<582, 590, 2, 1>>, <<880, 882, 2, 1>>, <<886, 886, 1, 1>>, <<895, 895, 1, 116>>,
      <<902, 902, 1, 38>>, <<904, 906, 1, 37>>, <<908, 908, 1, 64>>, <<910, 911, 1, 63>>, <<913,
      929, 1, 32>>, <<931, 939, 1, 32>>, <<975, 975, 1, 8>>, <<984, 1006, 2, 1>>, <<1012, 1012, 1,
      -60>>, <<1015, 1015, 1, 1>>, <<1017, 1017, 1, -7>>, <<1018, 1018, 1, 1>>, <<1021, 1023, 1,
      -130>>, <<1024, 1039, 1, 80>>, <<1040, 1071, 1, 32>>, <<1120, 1152, 2, 1>>, <<1162, 1214, 2,
      1>>, <<1216, 1216, 1, 15>>, <<1217, 1229, 2, 1>>, <<1232, 1326, 2, 1>>, <<1329, 1366, 1,
      48>>, <<4256, 4293, 1, 7264>>, <<4295, 4295, 1, 7264>>, <<4301, 4301, 1, 7264>>, <<5024,
      5103, 1, 38864>>, <<5104, 5109, 1, 8>>, <<7312, 7354, 1, -3008>>, <<7357, 7359, 1, -3008>>,
      <<7680, 7828, 2, 1>>, <<7838, 7838, 1, -7615>>, <<7840, 7934, 2, 1>>, <<7944, 7951, 1, -8>>,
      <<7960, 7965, 1, -8>>, <<7976, 7983, 1, -8>>, <<7992, 7999, 1, -8>>, <<8008, 8013, 1, -8>>,
      <<8025, 8031, 2, -8>>, <<8040, 8047, 1, -8>>, <<8072, 8079, 1, -8>>, <<8088, 8095, 1, -8>>,
      <<8104, 8111, 1, -8>>, <<8120, 8121, 1, -8>>, <<8122, 8123, 1, -74>>, <<8124, 8124, 1, -9>>,
      <<8136, 8139, 1, -86>>, <<8140, 8140, 1, -9>>, <<8152, 8153, 1, -8>>, <<8154, 8155, 1,
      -100>>, <<8168, 8169, 1, -8>>, <<8170, 8171, 1, -112>>, <<8172, 8172, 1, -7>>, <<8184, 8185,
      1, -128>>, <<8186, 8187, 1, -126>>, <<8188, 8188, 1, -9>>, <<8486, 8486, 1, -7517>>, <<8490,
      8490, 1, -8383>>, <<8491, 8491, 1, -8262>>, <<8498, 8498, 1, 28>>, <<8544, 8559, 1, 16>>,
      <<8579, 8579, 1, 1>>, <<9398, 9423, 1, 26>>, <<11264, 11311, 1, 48>>, <<11360, 11360, 1,
      1>>, <<11362, 11362, 1, -10743>>, <<11363, 11363, 1, -3814>>, <<11364, 11364, 1, -10727>>,
      <<11367, 11371, 2, 1>>, <<11373, 11373, 1, -10780>>, <<11374, 11374, 1, -10749>>, <<11375,
      11375, 1, -10783>>, <<11376, 11376, 1, -10782>>, <<11378, 11378, 1, 1>>, <<11381, 11381, 1,
      1>>, <<11390, 11391, 1, -10815>>, <<11392, 11490, 2, 1>>, <<11499, 11501, 2, 1>>, <<11506,
      11506, 1, 1>>, <<42560, 42604, 2, 1>>, <<42624, 42650, 2, 1>>, <<42786, 42798, 2, 1>>,
      <<42802, 42862, 2, 1>>, <<42873, 42875, 2, 1>>, <<42877, 42877, 1, -35332>>, <<42878, 42886,
      2, 1>>, <<42891, 42891, 1, 1>>, <<42893, 42893, 1, -42280>>, <<42896, 42898, 2, 1>>,
      <<42902, 42920, 2, 1>>, <<42922, 42922, 1, -42308>>, <<42923, 42923, 1, -42319>>, <<42924,
      42924, 1, -42315>>, <<42925, 42925, 1, -42305>>, <<42926, 42926, 1, -42308>>, <<42928,
      42928, 1, -42258>>, <<42929, 42929, 1, -42282>>, <<42930, 42930, 1, -42261>>, <<42931,
      42931, 1, 928>>, <<42932, 42946, 2, 1>>, <<42948, 42948, 1, -48>>, <<42949, 42949, 1,
      -42307>>, <<42950, 42950, 1, -35384>>, <<42951, 42953, 2, 1>>, <<42960, 42960, 1, 1>>,
      <<42966, 42968, 2, 1>>, <<42997, 42997, 1, 1>>, <<65313, 65338, 1, 32>>, <<66560, 66599, 1,
      40>>, <<66736, 66771, 1, 40>>, <<66928, 66938, 1, 39>>, <<66940, 66954, 1, 39>>, <<66956,
      66962, 1, 39>>, <<66964, 66965, 1, 39>>, <<68736, 68786, 1, 64>>, <<71840, 71871, 1, 32>>,
      <<93760, 93791, 1, 32>>, <<125184, 125217, 1, 34>>>>

LowerDomain ==
    UNION {{LowerRuns[i][1] + k * LowerRuns[i][3] :
              k \in 0..((LowerRuns[i][2] - LowerRuns[i][1]) \div LowerRuns[i][3])} :
           i \in 1..Len(LowerRuns)}

\* the lower-case character of each of them
LowerOf ==
    [c \in LowerDomain |->
        LET r == LowerRuns[CHOOSE i \in 1..Len(LowerRuns) :
                              /\ LowerRuns[i][1] <= c /\ c <= LowerRuns[i][2]
                              /\ (c - LowerRuns[i][1]) % LowerRuns[i][3] = 0]
        IN  c + r[4]]

\* _PyUnicode_ToLowerFull: the lower case of one character out of context;
\* only U+0130 becomes two characters
ToLowerFull(c) ==
    IF c = 304 THEN <<105, 775>>
    ELSE IF c \in LowerDomain THEN <<LowerOf[c]>>
    ELSE <<c>>

\* the characters with the property Cased, as ranges <<first, last>>
CasedRuns ==
    <<<<65, 90>>, <<97, 122>>, <<170, 170>>, <<181, 181>>, <<186, 186>>, <<192, 214>>, <<216,
      246>>, <<248, 442>>, <<444, 447>>, <<452, 659>>, <<661, 696>>, <<704, 705>>, <<736, 740>>,
      <<837, 837>>, <<880, 883>>, <<886, 887>>, <<890, 893>>, <<895, 895>>, <<902, 902>>, <<904,
      906>>, <<908, 908>>, <<910, 929>>, <<931, 1013>>, <<1015, 1153>>, <<1162, 1327>>, <<1329,
      1366>>, <<1376, 1416>>, <<4256, 4293>>, <<4295, 4295>>, <<4301, 4301>>, <<4304, 4346>>,
      <<4349, 4351>>, <<5024, 5109>>, <<5112, 5117>>, <<7296, 7304>>, <<7312, 7354>>, <<7357,
      7359>>, <<7424, 7615>>, <<7680, 7957>>, <<7960, 7965>>, <<7968, 8005>>, <<8008, 8013>>,
      <<8016, 8023>>, <<8025, 8025>>, <<8027, 8027>>, <<8029, 8029>>, <<8031, 8061>>, <<8064,
      8116>>, <<8118, 8124>>, <<8126, 8126>>, <<8130, 8132>>, <<8134, 8140>>, <<8144, 8147>>,
      <<8150, 8155>>, <<8160, 8172>>, <<8178, 8180>>, <<8182, 8188>>, <<8305, 8305>>, <<8319,
      8319>>, <<8336, 8348>>, <<8450, 8450>>, <<8455, 8455>>, <<8458, 8467>>, <<8469, 8469>>,
      <<8473, 8477>>, <<8484, 8484>>, <<8486, 8486>>, <<8488, 8488>>, <<8490, 8493>>, <<8495,
      8500>>, <<8505, 8505>>, <<8508, 8511>>, <<8517, 8521>>, <<8526, 8526>>, <<8544, 8575>>,
      <<8579, 8580>>, <<9398, 9449>>, <<11264, 11492>>, <<11499, 11502>>, <<11506, 11507>>,
      <<11520, 11557>>, <<11559, 11559>>, <<11565, 11565>>, <<42560, 42605>>, <<42624, 42653>>,
      <<42786, 42887>>, <<42891, 42894>>, <<42896, 42954>>, <<42960, 42961>>, <<42963, 42963>>,
      <<42965, 42969>>, <<42997, 42998>>, <<43000, 43002>>, <<43824, 43866>>, <<43868, 43880>>,
      <<43888, 43967>>, <<64256, 64262>>, <<64275, 64279>>, <<65313, 65338>>, <<65345, 65370>>,
      <<66560, 66639>>, <<66736, 66771>>, <<66776, 66811>>, <<66928, 66938>>, <<66940, 66954>>,
      <<66956, 66962>>, <<66964, 66965>>, <<66967, 66977>>, <<66979, 66993>>, <<66995, 67001>>,
      <<67003, 67004>>, <<67456, 67456>>, <<67459, 67461>>, <<67463, 67504>>, <<67506, 67514>>,
      <<68736, 68786>>, <<68800, 68850>>, <<71840, 71903>>, <<93760, 93823>>, <<119808, 119892>>,
      <<119894, 119964>>, <<119966, 119967>>, <<119970, 119970>>, <<119973, 119974>>, <<119977,
      119980>>, <<119982, 119993>>, <<119995, 119995>>, <<119997, 120003>>, <<120005, 120069>>,
      <<120071, 120074>>, <<120077, 120084>>, <<120086, 120092>>, <<120094, 120121>>, <<120123,
      120126>>, <<120128, 120132>>, <<120134, 120134>>, <<120138, 120144>>, <<120146, 120485>>,
      <<120488, 120512>>, <<120514, 120538>>, <<120540, 120570>>, <<120572, 120596>>, <<120598,
      120628>>, <<120630, 120654>>, <<120656, 120686>>, <<120688, 120712>>, <<120714, 120744>>,
      <<120746, 120770>>, <<120772, 120779>>, <<122624, 122633>>, <<122635, 122654>>, <<125184,
      125251>>, <<127280, 127305>>, <<127312, 127337>>, <<127344, 127369>>>>

\* the characters with the property Case_Ignorable, as ranges <<first, last>>
CaseIgnorableRuns ==
    <<<<39, 39>>, <<46, 46>>, <<58, 58>>, <<94, 94>>, <<96, 96>>, <<168, 168>>, <<173, 173>>,
      <<175, 175>>, <<180, 180>>, <<183, 184>>, <<688, 879>>, <<884, 885>>, <<890, 890>>, <<900,
      901>>, <<903, 903>>, <<1155, 1161>>, <<1369, 1369>>, <<1375, 1375>>, <<1425, 1469>>, <<1471,
      1471>>, <<1473, 1474>>, <<1476, 1477>>, <<1479, 1479>>, <<1524, 1524>>, <<1536, 1541>>,
      <<1552, 1562>>, <<1564, 1564>>, <<1600, 1600>>, <<1611, 1631>>, <<1648, 1648>>, <<1750,
      1757>>, <<1759, 1768>>, <<1770, 1773>>, <<1807, 1807>>, <<1809, 1809>>, <<1840, 1866>>,
      <<1958, 1968>>, <<2027, 2037>>, <<2042, 2042>>, <<2045, 2045>>, <<2070, 2093>>, <<2137,
      2139>>, <<2184, 2184>>, <<2192, 2193>>, <<2200, 2207>>, <<2249, 2306>>, <<2362, 2362>>,
      <<2364, 2364>>, <<2369, 2376>>, <<2381, 2381>>, <<2385, 2391>>, <<2402, 2403>>, <<2417,
      2417>>, <<2433, 2433>>, <<2492, 2492>>, <<2497, 2500>>, <<2509, 2509>>, <<2530, 2531>>,
      <<2558, 2558>>, <<2561, 2562>>, <<2620, 2620>>, <<2625, 2626>>, <<2631, 2632>>, <<2635,
      2637>>, <<2641, 2641>>, <<2672, 2673>>, <<2677, 2677>>, <<2689, 2690>>, <<2748, 2748>>,
      <<2753, 2757>>, <<2759, 2760>>, <<2765, 2765>>, <<2786, 2787>>, <<2810, 2815>>, <<2817,
      2817>>, <<2876, 2876>>, <<2879, 2879>>, <<2881, 2884>>, <<2893, 2893>>, <<2901, 2902>>,
      <<2914, 2915>>, <<2946, 2946>>, <<3008, 3008>>, <<3021, 3021>>, <<3072, 3072>>, <<3076,
      3076>>, <<3132, 3132>>, <<3134, 3136>>, <<3142, 3144>>, <<3146, 3149>>, <<3157, 3158>>,
      <<3170, 3171>>, <<3201, 3201>>, <<3260, 3260>>, <<3263, 3263>>, <<3270, 3270>>, <<3276,
      3277>>, <<3298, 3299>>, <<3328, 3329>>, <<3387, 3388>>, <<3393, 3396>>, <<3405, 3405>>,
      <<3426, 3427>>, <<3457, 3457>>, <<3530, 3530>>, <<3538, 3540>>, <<3542, 3542>>, <<3633,
      3633>>, <<3636, 3642>>, <<3654, 3662>>, <<3761, 3761>>, <<3764, 3772>>, <<3782, 3782>>,
      <<3784, 3789>>, <<3864, 3865>>, <<3893, 3893>>, <<3895, 3895>>, <<3897, 3897>>, <<3953,
      3966>>, <<3968, 3972>>, <<3974, 3975>>, <<3981, 3991>>, <<3993, 4028>>, <<4038, 4038>>,
      <<4141, 4144>>, <<4146, 4151>>, <<4153, 4154>>, <<4157, 4158>>, <<4184, 4185>>, <<4190,
      4192>>, <<4209, 4212>>, <<4226, 4226>>, <<4229, 4230>>, <<4237, 4237>>, <<4253, 4253>>,
      <<4348, 4348>>, <<4957, 4959>>, <<5906, 5908>>, <<5938, 5939>>, <<5970, 5971>>, <<6002,
      6003>>, <<6068, 6069>>, <<6071, 6077>>, <<6086, 6086>>, <<6089, 6099>>, <<6103, 6103>>,
      <<6109, 6109>>, <<6155, 6159>>, <<6211, 6211>>, <<6277, 6278>>, <<6313, 6313>>, <<6432,
      6434>>, <<6439, 6440>>, <<6450, 6450>>, <<6457, 6459>>, <<6679, 6680>>, <<6683, 6683>>,
      <<6742, 6742>>, <<6744, 6750>>, <<6752, 6752>>, <<6754, 6754>>, <<6757, 6764>>, <<6771,
      6780>>, <<6783, 6783>>, <<6823, 6823>>, <<6832, 6862>>, <<6912, 6915>>, <<6964, 6964>>,
      <<6966, 6970>>, <<6972, 6972>>, <<6978, 6978>>, <<7019, 7027>>, <<7040, 7041>>, <<7074,
      7077>>, <<7080, 7081>>, <<7083, 7085>>, <<7142, 7142>>, <<7144, 7145>>, <<7149, 7149>>,
      <<7151, 7153>>, <<7212, 7219>>, <<7222, 7223>>, <<7288, 7293>>, <<7376, 7378>>, <<7380,
      7392>>, <<7394, 7400>>, <<7405, 7405>>, <<7412, 7412>>, <<7416, 7417>>, <<7468, 7530>>,
      <<7544, 7544>>, <<7579, 7679>>, <<8125, 8125>>, <<8127, 8129>>, <<8141, 8143>>, <<8157,
      8159>>, <<8173, 8175>>, <<8189, 8190>>, <<8203, 8207>>, <<8216, 8217>>, <<8228, 8228>>,
      <<8231, 8231>>, <<8234, 8238>>, <<8288, 8292>>, <<8294, 8303>>, <<8305, 8305>>, <<8319,
      8319>>, <<8336, 8348>>, <<8400, 8432>>, <<11388, 11389>>, <<11503, 11505>>, <<11631,
      11631>>, <<11647, 11647>>, <<11744, 11775>>, <<11823, 11823>>, <<12293, 12293>>, <<12330,
      12333>>, <<12337, 12341>>, <<12347, 12347>>, <<12441, 12446>>, <<12540, 12542>>, <<40981,
      40981>>, <<42232, 42237>>, <<42508, 42508>>, <<42607, 42610>>, <<42612, 42621>>, <<42623,
      42623>>, <<42652, 42655>>, <<42736, 42737>>, <<42752, 42785>>, <<42864, 42864>>, <<42888,
      42890>>, <<42994, 42996>>, <<43000, 43001>>, <<43010, 43010>>, <<43014, 43014>>, <<43019,
      43019>>, <<43045, 43046>>, <<43052, 43052>>, <<43204, 43205>>, <<43232, 43249>>, <<43263,
      43263>>, <<43302, 43309>>, <<43335, 43345>>, <<43392, 43394>>, <<43443, 43443>>, <<43446,
      43449>>, <<43452, 43453>>, <<43471, 43471>>, <<43493, 43494>>, <<43561, 43566>>, <<43569,
      43570>>, <<43573, 43574>>, <<43587, 43587>>, <<43596, 43596>>, <<43632, 43632>>, <<43644,
      43644>>, <<43696, 43696>>, <<43698, 43700>>, <<43703, 43704>>, <<43710, 43711>>, <<43713,
      43713>>, <<43741, 43741>>, <<43756, 43757>>, <<43763, 43764>>, <<43766, 43766>>, <<43867,
      43871>>, <<43881, 43883>>, <<44005, 44005>>, <<44008, 44008>>, <<44013, 44013>>, <<64286,
      64286>>, <<64434, 64450>>, <<65024, 65039>>, <<65043, 65043>>, <<65056, 65071>>, <<65106,
      65106>>, <<65109, 65109>>, <<65279, 65279>>, <<65287, 65287>>, <<65294, 65294>>, <<65306,
      65306>>, <<65342, 65342>>, <<65344, 65344>>, <<65392, 65392>>, <<65438, 65439>>, <<65507,
      65507>>, <<65529, 65531>>, <<66045, 66045>>, <<66272, 66272>>, <<66422, 66426>>, <<67456,
      67461>>, <<67463, 67504>>, <<67506, 67514>>, <<68097, 68099>>, <<68101, 68102>>, <<68108,
      68111>>, <<68152, 68154>>, <<68159, 68159>>, <<68325, 68326>>, <<68900, 68903>>, <<69291,
      69292>>, <<69446, 69456>>, <<69506, 69509>>, <<69633, 69633>>, <<69688, 69702>>, <<69744,
      69744>>, <<69747, 69748>>, <<69759, 69761>>, <<69811, 69814>>, <<69817, 69818>>, <<69821,
      69821>>, <<69826, 69826>>, <<69837, 69837>>, <<69888, 69890>>, <<69927, 69931>>, <<69933,
      69940>>, <<70003, 70003>>, <<70016, 70017>>, <<70070, 70078>>, <<70089, 70092>>, <<70095,
      70095>>, <<70191, 70193>>, <<70196, 70196>>, <<70198, 70199>>, <<70206, 70206>>, <<70367,
      70367>>, <<70371, 70378>>, <<70400, 70401>>, <<70459, 70460>>, <<70464, 70464>>, <<70502,
      70508>>, <<70512, 70516>>, <<70712, 70719>>, <<70722, 70724>>, <<70726, 70726>>, <<70750,
      70750>>, <<70835, 70840>>, <<70842, 70842>>, <<70847, 70848>>, <<70850, 70851>>, <<71090,
      71093>>, <<71100, 71101>>, <<71103, 71104>>, <<71132, 71133>>, <<71219, 71226>>, <<71229,
      71229>>, <<71231, 71232>>, <<71339, 71339>>, <<71341, 71341>>, <<71344, 71349>>, <<71351,
      71351>>, <<71453, 71455>>, <<71458, 71461>>, <<71463, 71467>>, <<71727, 71735>>, <<71737,
      71738>>, <<71995, 71996>>, <<71998, 71998>>, <<72003, 72003>>, <<72148, 72151>>, <<72154,
      72155>>, <<72160, 72160>>, <<72193, 72202>>, <<72243, 72248>>, <<72251, 72254>>, <<72263,
      72263>>, <<72273, 72278>>, <<72281, 72283>>, <<72330, 72342>>, <<72344, 72345>>, <<72752,
      72758>>, <<72760, 72765>>, <<72767, 72767>>, <<72850, 72871>>, <<72874, 72880>>, <<72882,
      72883>>, <<72885, 72886>>, <<73009, 73014>>, <<73018, 73018>>, <<73020, 73021>>, <<73023,
      73029>>, <<73031, 73031>>, <<73104, 73105>>, <<73109, 73109>>, <<73111, 73111>>, <<73459,
      73460>>, <<78896, 78904>>, <<92912, 92916>>, <<92976, 92982>>, <<92992, 92995>>, <<94031,
      94031>>, <<94095, 94111>>, <<94176, 94177>>, <<94179, 94180>>, <<110576, 110579>>, <<110581,
      110587>>, <<110589, 110590>>, <<113821, 113822>>, <<113824, 113827>>, <<118528, 118573>>,
      <<118576, 118598>>, <<119143, 119145>>, <<119155, 119170>>, <<119173, 119179>>, <<119210,
      119213>>, <<119362, 119364>>, <<121344, 121398>>, <<121403, 121452>>, <<121461, 121461>>,
      <<121476, 121476>>, <<121499, 121503>>, <<121505, 121519>>, <<122880, 122886>>, <<122888,
      122904>>, <<122907, 122913>>, <<122915, 122916>>, <<122918, 122922>>, <<123184, 123197>>,
      <<123566, 123566>>, <<123628, 123631>>, <<125136, 125142>>, <<125252, 125259>>, <<127995,
      127999>>, <<917505, 917505>>, <<917536, 917631>>, <<917760, 917999>>>>

IsCased(c) == InRuns(c, CasedRuns)

IsCaseIgnorable(c) == InRuns(c, CaseIgnorableRuns)

\* handle_capital_sigma: the capital sigma at index i of s ends a word, that
\* is, a cased letter comes before it and none after it, the characters that
\* are Case_Ignorable skipped
FinalSigma(s, i) ==
    /\ \E j \in 1..(i - 1) :
          /\ ~IsCaseIgnorable(s[j])
          /\ IsCased(s[j])
          /\ \A k \in (j + 1)..(i - 1) : IsCaseIgnorable(s[k])
    /\ ~\E j \in (i + 1)..Len(s) :
          /\ ~IsCaseIgnorable(s[j])
          /\ IsCased(s[j])
          /\ \A k \in (i + 1)..(j - 1) : IsCaseIgnorable(s[k])

\* (variant: the name used as given)
LowerCharKept(s, i) == <<s[i]>>

\* str.lower() on the character at index i of s: U+03A3 becomes U+03C2 at the
\* end of a word and U+03C3 elsewhere
LowerChar(s, i) ==
    IF s[i] = 931
    THEN IF FinalSigma(s, i) THEN <<962>> ELSE <<963>>
    ELSE ToLowerFull(s[i])

\* event[...]["LifecycleConfigName"].lower()
Lower(s) == Concat([i \in 1..Len(s) |-> LowerChar(s, i)])

\* the first code point of each run of ten decimal digits (category Nd), the
\* digit of value k at k above it
DigitStarts ==
    {48, 1632, 1776, 1984, 2406, 2534, 2662, 2790, 2918, 3046, 3174, 3302, 3430, 3558, 3664,
     3792, 3872, 4160, 4240, 6112, 6160, 6470, 6608, 6784, 6800, 6992, 7088, 7232, 7248, 42528,
     43216, 43264, 43472, 43504, 43600, 44016, 65296, 66720, 68912, 69734, 69872, 69942, 70096,
     70384, 70736, 70864, 71248, 71360, 71472, 71904, 72016, 72784, 73040, 73120, 92768, 92864,
     93008, 120782, 120792, 120802, 120812, 120822, 123200, 123632, 125264, 130032}

DigitCodes == UNION {st..(st + 9) : st \in DigitStarts}

\* Py_UNICODE_TODECIMAL(c) >= 0
IsDigit(c) == c \in DigitCodes

\* Py_UNICODE_TODECIMAL(c)
DigitVal(c) == c - (CHOOSE st \in DigitStarts : c \in st..(st + 9))

RECURSIVE DigitsVal(_)
DigitsVal(s) ==
    IF s = <<>> THEN 0
    ELSE 10 * DigitsVal(SubSeq(s, 1, Len(s) - 1)) + DigitVal(s[Len(s)])

\* "+" or "-"
IsSign(c) == c \in {43, 45}

\* the characters from U+007F on with str.isspace()
SpaceCodes ==
    {133, 160, 5760, 8192, 8193, 8194, 8195, 8196, 8197, 8198, 8199, 8200, 8201, 8202, 8232,
     8233, 8239, 8287, 12288}

\* the white space int() skips: that of C isspace() among the ASCII
\* characters (U+001C to U+001F are none), and str.isspace() beyond them
IsSpace(c) == c \in {9, 10, 11, 12, 13, 32} \/ c \in SpaceCodes

\* s from its first character that is no white space
StripLeft(s) ==
    IF \A i \in 1..Len(s) : IsSpace(s[i])
    THEN <<>>
    ELSE SubSeq(s, CHOOSE i \in 1..Len(s) :
                      ~IsSpace(s[i]) /\ \A j \in 1..(i - 1) : IsSpace(s[j]),
                Len(s))

\* s up to its last character that is no white space
StripRight(s) ==
    IF \A i \in 1..Len(s) : IsSpace(s[i])
    THEN <<>>
    ELSE SubSeq(s, 1, CHOOSE i \in 1..Len(s) :
                         ~IsSpace(s[i]) /\ \A j \in (i + 1)..Len(s) : IsSpace(s[j]))

Strip(s) == StripRight(StripLeft(s))

\* the literal without its surrounding white space and its sign
Unsigned(s) ==
    LET t == Strip(s) IN IF t # <<>> /\ IsSign(t[1]) THEN Tail(t) ELSE t

\* sys.int_max_str_digits
MaxStrDigits == 4300

\* a digit or "_"
IsDigitOrUnderscore(c) == IsDigit(c) \/ c = 95

\* the digits and underscores int() scans from the start of u
DigitRun(u) ==
    IF \A i \in 1..Len(u) : IsDigitOrUnderscore(u[i])
    THEN u
    ELSE SubSeq(u, 1, (CHOOSE i \in 1..Len(u) :
                          /\ ~IsDigitOrUnderscore(u[i])
                          /\ \A j \in 1..(i - 1) : IsDigitOrUnderscore(u[j])) - 1)

\* the scan succeeds: digits with single underscores between them
RunOk(r) ==
    /\ r # <<>>
    /\ IsDigit(r[1])
    /\ IsDigit(r[Len(r)])
    /\ \A i \in 1..(Len(r) - 1) : ~(r[i] = 95 /\ r[i + 1] = 95)

NumDigits(r) == Cardinality({i \in 1..Len(r) : IsDigit(r[i])})

\* whether int(s) returns (otherwise it raises ValueError): white space,
\* an optional sign, at most MaxStrDigits decimal digits with single
\* underscores between them, white space
IsInt(s) ==
    LET u == Unsigned(s)
        r == DigitRun(u)
    IN  /\ RunOk(r)
        /\ NumDigits(r) <= MaxStrDigits
        /\ r = u

\* the digits d from the first one whose value is not 0
Significant(d) ==
    IF \A i \in 1..Len(d) : DigitVal(d[i]) = 0
    THEN <<>>
    ELSE SubSeq(d, CHOOSE i \in 1..Len(d) :
                      DigitVal(d[i]) # 0 /\ \A j \in 1..(i - 1) : DigitVal(d[j]) = 0,
                Len(d))

\* int(s), for the s with IsInt(s)
IntOf(s) ==
    LET v == DigitsVal(Significant(SelectSeq(Unsigned(s), IsDigit)))
    IN  IF Strip(s)[1] = 45 THEN 0 - v ELSE v

\* str(n) for n >= 0
RECURSIVE Decimal(_)
Decimal(n) == IF n < 10 THEN <<48 + n>> ELSE Decimal(n \div 10) \o <<48 + (n % 10)>>

\* "0123456789abcdef"
HexDigits == <<48, 49, 50, 51, 52, 53, 54, 55, 56, 57, 97, 98, 99, 100, 101, 102>>

\* c in w hexadecimal digits
Hex(c, w) == [i \in 1..w |-> HexDigits[((c \div (16 ^ (w - i))) % 16) + 1]]

\* the code points without str.isprintable(), as ranges <<first, last>>
NonPrintableRuns ==
    <<<<0, 31>>, <<127, 160>>, <<173, 173>>, <<888, 889>>, <<896, 899>>, <<907, 907>>, <<909,
      909>>, <<930, 930>>, <<1328, 1328>>, <<1367, 1368>>, <<1419, 1420>>, <<1424, 1424>>, <<1480,
      1487>>, <<1515, 1518>>, <<1525, 1541>>, <<1564, 1564>>, <<1757, 1757>>, <<1806, 1807>>,
      <<1867, 1868>>, <<1970, 1983>>, <<2043, 2044>>, <<2094, 2095>>, <<2111, 2111>>, <<2140,
      2141>>, <<2143, 2143>>, <<2155, 2159>>, <<2191, 2199>>, <<2274, 2274>>, <<2436, 2436>>,
      <<2445, 2446>>, <<2449, 2450>>, <<2473, 2473>>, <<2481, 2481>>, <<2483, 2485>>, <<2490,
      2491>>, <<2501, 2502>>, <<2505, 2506>>, <<2511, 2518>>, <<2520, 2523>>, <<2526, 2526>>,
      <<2532, 2533>>, <<2559, 2560>>, <<2564, 2564>>, <<2571, 2574>>, <<2577, 2578>>, <<2601,
      2601>>, <<2609, 2609>>, <<2612, 2612>>, <<2615, 2615>>, <<2618, 2619>>, <<2621, 2621>>,
      <<2627, 2630>>, <<2633, 2634>>, <<2638, 2640>>, <<2642, 2648>>, <<2653, 2653>>, <<2655,
      2661>>, <<2679, 2688>>, <<2692, 2692>>, <<2702, 2702>>, <<2706, 2706>>, <<2729, 2729>>,
      <<2737, 2737>>, <<2740, 2740>>, <<2746, 2747>>, <<2758, 2758>>, <<2762, 2762>>, <<2766,
      2767>>, <<2769, 2783>>, <<2788, 2789>>, <<2802, 2808>>, <<2816, 2816>>, <<2820, 2820>>,
      <<2829, 2830>>, <<2833, 2834>>, <<2857, 2857>>, <<2865, 2865>>, <<2868, 2868>>, <<2874,
      2875>>, <<2885, 2886>>, <<2889, 2890>>, <<2894, 2900>>, <<2904, 2907>>, <<2910, 2910>>,
      <<2916, 2917>>, <<2936, 2945>>, <<2948, 2948>>, <<2955, 2957>>, <<2961, 2961>>, <<2966,
      2968>>, <<2971, 2971>>, <<2973, 2973>>, <<2976, 2978>>, <<2981, 2983>>, <<2987, 2989>>,
      <<3002, 3005>>, <<3011, 3013>>, <<3017, 3017>>, <<3022, 3023>>, <<3025, 3030>>, <<3032,
      3045>>, <<3067, 3071>>, <<3085, 3085>>, <<3089, 3089>>, <<3113, 3113>>, <<3130, 3131>>,
      <<3141, 3141>>, <<3145, 3145>>, <<3150, 3156>>, <<3159, 3159>>, <<3163, 3164>>, <<3166,
      3167>>, <<3172, 3173>>, <<3184, 3190>>, <<3213, 3213>>, <<3217, 3217>>, <<3241, 3241>>,
      <<3252, 3252>>, <<3258, 3259>>, <<3269, 3269>>, <<3273, 3273>>, <<3278, 3284>>, <<3287,
      3292>>, <<3295, 3295>>, <<3300, 3301>>, <<3312, 3312>>, <<3315, 3327>>, <<3341, 3341>>,
      <<3345, 3345>>, <<3397, 3397>>, <<3401, 3401>>, <<3408, 3411>>, <<3428, 3429>>, <<3456,
      3456>>, <<3460, 3460>>, <<3479, 3481>>, <<3506, 3506>>, <<3516, 3516>>, <<3518, 3519>>,
      <<3527, 3529>>, <<3531, 3534>>, <<3541, 3541>>, <<3543, 3543>>, <<3552, 3557>>, <<3568,
      3569>>, <<3573, 3584>>, <<3643, 3646>>, <<3676, 3712>>, <<3715, 3715>>, <<3717, 3717>>,
      <<3723, 3723>>, <<3748, 3748>>, <<3750, 3750>>, <<3774, 3775>>, <<3781, 3781>>, <<3783,
      3783>>, <<3790, 3791>>, <<3802, 3803>>, <<3808, 3839>>, <<3912, 3912>>, <<3949, 3952>>,
      <<3992, 3992>>, <<4029, 4029>>, <<4045, 4045>>, <<4059, 4095>>, <<4294, 4294>>, <<4296,
      4300>>, <<4302, 4303>>, <<4681, 4681>>, <<4686, 4687>>, <<4695, 4695>>, <<4697, 4697>>,
      <<4702, 4703>>, <<4745, 4745>>, <<4750, 4751>>, <<4785, 4785>>, <<4790, 4791>>, <<4799,
      4799>>, <<4801, 4801>>, <<4806, 4807>>, <<4823, 4823>>, <<4881, 4881>>, <<4886, 4887>>,
      <<4955, 4956>>, <<4989, 4991>>, <<5018, 5023>>, <<5110, 5111>>, <<5118, 5119>>, <<5760,
      5760>>, <<5789, 5791>>, <<5881, 5887>>, <<5910, 5918>>, <<5943, 5951>>, <<5972, 5983>>,
      <<5997, 5997>>, <<6001, 6001>>, <<6004, 6015>>, <<6110, 6111>>, <<6122, 6127>>, <<6138,
      6143>>, <<6158, 6158>>, <<6170, 6175>>, <<6265, 6271>>, <<6315, 6319>>, <<6390, 6399>>,
      <<6431, 6431>>, <<6444, 6447>>, <<6460, 6463>>, <<6465, 6467>>, <<6510, 6511>>, <<6517,
      6527>>, <<6572, 6575>>, <<6602, 6607>>, <<6619, 6621>>, <<6684, 6685>>, <<6751, 6751>>,
      <<6781, 6782>>, <<6794, 6799>>, <<6810, 6815>>, <<6830, 6831>>, <<6863, 6911>>, <<6989,
      6991>>, <<7039, 7039>>, <<7156, 7163>>, <<7224, 7226>>, <<7242, 7244>>, <<7305, 7311>>,
      <<7355, 7356>>, <<7368, 7375>>, <<7419, 7423>>, <<7958, 7959>>, <<7966, 7967>>, <<8006,
      8007>>, <<8014, 8015>>, <<8024, 8024>>, <<8026, 8026>>, <<8028, 8028>>, <<8030, 8030>>,
      <<8062, 8063>>, <<8117, 8117>>, <<8133, 8133>>, <<8148, 8149>>, <<8156, 8156>>, <<8176,
      8177>>, <<8181, 8181>>, <<8191, 8207>>, <<8232, 8239>>, <<8287, 8303>>, <<8306, 8307>>,
      <<8335, 8335>>, <<8349, 8351>>, <<8385, 8399>>, <<8433, 8447>>, <<8588, 8591>>, <<9255,
      9279>>, <<9291, 9311>>, <<11124, 11125>>, <<11158, 11158>>, <<11508, 11512>>, <<11558,
      11558>>, <<11560, 11564>>, <<11566, 11567>>, <<11624, 11630>>, <<11633, 11646>>, <<11671,
      11679>>, <<11687, 11687>>, <<11695, 11695>>, <<11703, 11703>>, <<11711, 11711>>, <<11719,
      11719>>, <<11727, 11727>>, <<11735, 11735>>, <<11743, 11743>>, <<11870, 11903>>, <<11930,
      11930>>, <<12020, 12031>>, <<12246, 12271>>, <<12284, 12288>>, <<12352, 12352>>, <<12439,
      12440>>, <<12544, 12548>>, <<12592, 12592>>, <<12687, 12687>>, <<12772, 12783>>, <<12831,
      12831>>, <<42125, 42127>>, <<42183, 42191>>, <<42540, 42559>>, <<42744, 42751>>, <<42955,
      42959>>, <<42962, 42962>>, <<42964, 42964>>, <<42970, 42993>>, <<43053, 43055>>, <<43066,
      43071>>, <<43128, 43135>>, <<43206, 43213>>, <<43226, 43231>>, <<43348, 43358>>, <<43389,
      43391>>, <<43470, 43470>>, <<43482, 43485>>, <<43519, 43519>>, <<43575, 43583>>, <<43598,
      43599>>, <<43610, 43611>>, <<43715, 43738>>, <<43767, 43776>>, <<43783, 43784>>, <<43791,
      43792>>, <<43799, 43807>>, <<43815, 43815>>, <<43823, 43823>>, <<43884, 43887>>, <<44014,
      44015>>, <<44026, 44031>>, <<55204, 55215>>, <<55239, 55242>>, <<55292, 63743>>, <<64110,
      64111>>, <<64218, 64255>>, <<64263, 64274>>, <<64280, 64284>>, <<64311, 64311>>, <<64317,
      64317>>, <<64319, 64319>>, <<64322, 64322>>, <<64325, 64325>>, <<64451, 64466>>, <<64912,
      64913>>, <<64968, 64974>>, <<64976, 65007>>, <<65050, 65055>>, <<65107, 65107>>, <<65127,
      65127>>, <<65132, 65135>>, <<65141, 65141>>, <<65277, 65280>>, <<65471, 65473>>, <<65480,
      65481>>, <<65488, 65489>>, <<65496, 65497>>, <<65501, 65503>>, <<65511, 65511>>, <<65519,
      65531>>, <<65534, 65535>>, <<65548, 65548>>, <<65575, 65575>>, <<65595, 65595>>, <<65598,
      65598>>, <<65614, 65615>>, <<65630, 65663>>, <<65787, 65791>>, <<65795, 65798>>, <<65844,
      65846>>, <<65935, 65935>>, <<65949, 65951>>, <<65953, 65999>>, <<66046, 66175>>, <<66205,
      66207>>, <<66257, 66271>>, <<66300, 66303>>, <<66340, 66348>>, <<66379, 66383>>, <<66427,
      66431>>, <<66462, 66462>>, <<66500, 66503>>, <<66518, 66559>>, <<66718, 66719>>, <<66730,
      66735>>, <<66772, 66775>>, <<66812, 66815>>, <<66856, 66863>>, <<66916, 66926>>, <<66939,
      66939>>, <<66955, 66955>>, <<66963, 66963>>, <<66966, 66966>>, <<66978, 66978>>, <<66994,
      66994>>, <<67002, 67002>>, <<67005, 67071>>, <<67383, 67391>>, <<67414, 67423>>, <<67432,
      67455>>, <<67462, 67462>>, <<67505, 67505>>, <<67515, 67583>>, <<67590, 67591>>, <<67593,
      67593>>, <<67638, 67638>>, <<67641, 67643>>, <<67645, 67646>>, <<67670, 67670>>, <<67743,
      67750>>, <<67760, 67807>>, <<67827, 67827>>, <<67830, 67834>>, <<67868, 67870>>, <<67898,
      67902>>, <<67904, 67967>>, <<68024, 68027>>, <<68048, 68049>>, <<68100, 68100>>, <<68103,
      68107>>, <<68116, 68116>>, <<68120, 68120>>, <<68150, 68151>>, <<68155, 68158>>, <<68169,
      68175>>, <<68185, 68191>>, <<68256, 68287>>, <<68327, 68330>>, <<68343, 68351>>, <<68406,
      68408>>, <<68438, 68439>>, <<68467, 68471>>, <<68498, 68504>>, <<68509, 68520>>, <<68528,
      68607>>, <<68681, 68735>>, <<68787, 68799>>, <<68851, 68857>>, <<68904, 68911>>, <<68922,
      69215>>, <<69247, 69247>>, <<69290, 69290>>, <<69294, 69295>>, <<69298, 69375>>, <<69416,
      69423>>, <<69466, 69487>>, <<69514, 69551>>, <<69580, 69599>>, <<69623, 69631>>, <<69710,
      69713>>, <<69750, 69758>>, <<69821, 69821>>, <<69827, 69839>>, <<69865, 69871>>, <<69882,
      69887>>, <<69941, 69941>>, <<69960, 69967>>, <<70007, 70015>>, <<70112, 70112>>, <<70133,
      70143>>, <<70162, 70162>>, <<70207, 70271>>, <<70279, 70279>>, <<70281, 70281>>, <<70286,
      70286>>, <<70302, 70302>>, <<70314, 70319>>, <<70379, 70383>>, <<70394, 70399>>, <<70404,
      70404>>, <<70413, 70414>>, <<70417, 70418>>, <<70441, 70441>>, <<70449, 70449>>, <<70452,
      70452>>, <<70458, 70458>>, <<70469, 70470>>, <<70473, 70474>>, <<70478, 70479>>, <<70481,
      70486>>, <<70488, 70492>>, <<70500, 70501>>, <<70509, 70511>>, <<70517, 70655>>, <<70748,
      70748>>, <<70754, 70783>>, <<70856, 70863>>, <<70874, 71039>>, <<71094, 71095>>, <<71134,
      71167>>, <<71237, 71247>>, <<71258, 71263>>, <<71277, 71295>>, <<71354, 71359>>, <<71370,
      71423>>, <<71451, 71452>>, <<71468, 71471>>, <<71495, 71679>>, <<71740, 71839>>, <<71923,
      71934>>, <<71943, 71944>>, <<71946, 71947>>, <<71956, 71956>>, <<71959, 71959>>, <<71990,
      71990>>, <<71993, 71994>>, <<72007, 72015>>, <<72026, 72095>>, <<72104, 72105>>, <<72152,
      72153>>, <<72165, 72191>>, <<72264, 72271>>, <<72355, 72367>>, <<72441, 72703>>, <<72713,
      72713>>, <<72759, 72759>>, <<72774, 72783>>, <<72813, 72815>>, <<72848, 72849>>, <<72872,
      72872>>, <<72887, 72959>>, <<72967, 72967>>, <<72970, 72970>>, <<73015, 73017>>, <<73019,
      73019>>, <<73022, 73022>>, <<73032, 73039>>, <<73050, 73055>>, <<73062, 73062>>, <<73065,
      73065>>, <<73103, 73103>>, <<73106, 73106>>, <<73113, 73119>>, <<73130, 73439>>, <<73465,
      73647>>, <<73649, 73663>>, <<73714, 73726>>, <<74650, 74751>>, <<74863, 74863>>, <<74869,
      74879>>, <<75076, 77711>>, <<77811, 77823>>, <<78895, 82943>>, <<83527, 92159>>, <<92729,
      92735>>, <<92767, 92767>>, <<92778, 92781>>, <<92863, 92863>>, <<92874, 92879>>, <<92910,
      92911>>, <<92918, 92927>>, <<92998, 93007>>, <<93018, 93018>>, <<93026, 93026>>, <<93048,
      93052>>, <<93072, 93759>>, <<93851, 93951>>, <<94027, 94030>>, <<94088, 94094>>, <<94112,
      94175>>, <<94181, 94191>>, <<94194, 94207>>, <<100344, 100351>>, <<101590, 101631>>,
      <<101641, 110575>>, <<110580, 110580>>, <<110588, 110588>>, <<110591, 110591>>, <<110883,
      110927>>, <<110931, 110947>>, <<110952, 110959>>, <<111356, 113663>>, <<113771, 113775>>,
      <<113789, 113791>>, <<113801, 113807>>, <<113818, 113819>>, <<113824, 118527>>, <<118574,
      118575>>, <<118599, 118607>>, <<118724, 118783>>, <<119030, 119039>>, <<119079, 119080>>,
      <<119155, 119162>>, <<119275, 119295>>, <<119366, 119519>>, <<119540, 119551>>, <<119639,
      119647>>, <<119673, 119807>>, <<119893, 119893>>, <<119965, 119965>>, <<119968, 119969>>,
      <<119971, 119972>>, <<119975, 119976>>, <<119981, 119981>>, <<119994, 119994>>, <<119996,
      119996>>, <<120004, 120004>>, <<120070, 120070>>, <<120075, 120076>>, <<120085, 120085>>,
      <<120093, 120093>>, <<120122, 120122>>, <<120127, 120127>>, <<120133, 120133>>, <<120135,
      120137>>, <<120145, 120145>>, <<120486, 120487>>, <<120780, 120781>>, <<121484, 121498>>,
      <<121504, 121504>>, <<121520, 122623>>, <<122655, 122879>>, <<122887, 122887>>, <<122905,
      122906>>, <<122914, 122914>>, <<122917, 122917>>, <<122923, 123135>>, <<123181, 123183>>,
      <<123198, 123199>>, <<123210, 123213>>, <<123216, 123535>>, <<123567, 123583>>, <<123642,
      123646>>, <<123648, 124895>>, <<124903, 124903>>, <<124908, 124908>>, <<124911, 124911>>,
      <<124927, 124927>>, <<125125, 125126>>, <<125143, 125183>>, <<125260, 125263>>, <<125274,
      125277>>, <<125280, 126064>>, <<126133, 126208>>, <<126270, 126463>>, <<126468, 126468>>,
      <<126496, 126496>>, <<126499, 126499>>, <<126501, 126502>>, <<126504, 126504>>, <<126515,
      126515>>, <<126520, 126520>>, <<126522, 126522>>, <<126524, 126529>>, <<126531, 126534>>,
      <<126536, 126536>>, <<126538, 126538>>, <<126540, 126540>>, <<126544, 126544>>, <<126547,
      126547>>, <<126549, 126550>>, <<126552, 126552>>, <<126554, 126554>>, <<126556, 126556>>,
      <<126558, 126558>>, <<126560, 126560>>, <<126563, 126563>>, <<126565, 126566>>, <<126571,
      126571>>, <<126579, 126579>>, <<126584, 126584>>, <<126589, 126589>>, <<126591, 126591>>,
      <<126602, 126602>>, <<126620, 126624>>, <<126628, 126628>>, <<126634, 126634>>, <<126652,
      126703>>, <<126706, 126975>>, <<127020, 127023>>, <<127124, 127135>>, <<127151, 127152>>,
      <<127168, 127168>>, <<127184, 127184>>, <<127222, 127231>>, <<127406, 127461>>, <<127491,
      127503>>, <<127548, 127551>>, <<127561, 127567>>, <<127570, 127583>>, <<127590, 127743>>,
      <<128728, 128732>>, <<128749, 128751>>, <<128765, 128767>>, <<128884, 128895>>, <<128985,
      128991>>, <<129004, 129007>>, <<129009, 129023>>, <<129036, 129039>>, <<129096, 129103>>,
      <<129114, 129119>>, <<129160, 129167>>, <<129198, 129199>>, <<129202, 129279>>, <<129620,
      129631>>, <<129646, 129647>>, <<129653, 129655>>, <<129661, 129663>>, <<129671, 129679>>,
      <<129709, 129711>>, <<129723, 129727>>, <<129734, 129743>>, <<129754, 129759>>, <<129768,
      129775>>, <<129783, 129791>>, <<129939, 129939>>, <<129995, 130031>>, <<130042, 131071>>,
      <<173792, 173823>>, <<177977, 177983>>, <<178206, 178207>>, <<183970, 183983>>, <<191457,
      194559>>, <<195102, 196607>>, <<201547, 917759>>, <<918000, 1114111>>>>

\* Py_UNICODE_ISPRINTABLE(c)
IsPrintable(c) == ~InRuns(c, NonPrintableRuns)

\* repr() of one character inside the quotes q
ReprChar(c, q) ==
    CASE c = q \/ c = 92 -> <<92, c>>
      [] c = 9 -> <<92, 116>>
      [] c = 10 -> <<92, 110>>
      [] c = 13 -> <<92, 114>>
      [] c \notin {q, 92, 9, 10, 13} /\ (c < 32 \/ c = 127) -> <<92, 120>> \o Hex(c, 2)
      [] c \notin {q, 92} /\ c \in 32..126 -> <<c>>
      [] c > 127 /\ ~IsPrintable(c) ->
           IF c <= 255 THEN <<92, 120>> \o Hex(c, 2)
           ELSE IF c <= 65535 THEN <<92, 117>> \o Hex(c, 4)
           ELSE <<92, 85>> \o Hex(c, 8)
      [] OTHER -> <<c>>

Has(s, c) == \E i \in 1..Len(s) : s[i] = c

\* repr() of the characters of s inside the quotes q, by halves
RECURSIVE ReprChars(_, _)
ReprChars(s, q) ==
    IF s = <<>> THEN <<>>
    ELSE IF Len(s) = 1 THEN ReprChar(s[1], q)
    ELSE ReprChars(SubSeq(s, 1, Len(s) \div 2), q)
         \o ReprChars(SubSeq(s, Len(s) \div 2 + 1, Len(s)), q)

\* the quotes of repr(s): double when s has an apostrophe and no double quote
ReprQuote(s) == IF Has(s, 39) /\ ~Has(s, 34) THEN 34 ELSE 39

\* repr(s)
Repr(s) == <<ReprQuote(s)>> \o ReprChars(s, ReprQuote(s)) \o <<ReprQuote(s)>>

\* the precision of %.200R in the message of int()
ReprPrecision == 200

\* the first ReprPrecision characters of repr(s)
ReprCut(s) ==
    LET q == ReprQuote(s)
        r == IF Len(s) < ReprPrecision
             THEN Repr(s)
             ELSE <<q>> \o ReprChars(SubSeq(s, 1, ReprPrecision), q)
    IN  SubSeq(r, 1, IF Len(r) < ReprPrecision THEN Len(r) ELSE ReprPrecision)

\* "invalid literal for int() with base 10: "
InvalidLiteralText ==
    <<105, 110, 118, 97, 108, 105, 100, 32, 108, 105, 116, 101, 114, 97, 108, 32, 102, 111, 114,
      32, 105, 110, 116, 40, 41, 32, 119, 105, 116, 104, 32, 98, 97, 115, 101, 32, 49, 48, 58, 32>>

\* str(e) of the ValueError int() raises on a string that is no literal
IntErrorMsg(s) == InvalidLiteralText \o ReprCut(s)

\* "Exceeds the limit ("
ExceedsLimitText ==
    <<69, 120, 99, 101, 101, 100, 115, 32, 116, 104, 101, 32, 108, 105, 109, 105, 116, 32, 40>>

\* " digits) for integer string conversion: value has "
ValueHasText ==
    <<32, 100, 105, 103, 105, 116, 115, 41, 32, 102, 111, 114, 32, 105, 110, 116, 101, 103, 101,
      114, 32, 115, 116, 114, 105, 110, 103, 32, 99, 111, 110, 118, 101, 114, 115, 105, 111, 110,
      58, 32, 118, 97, 108, 117, 101, 32, 104, 97, 115, 32>>

\* " digits; use sys.set_int_max_str_digits() to increase the limit"
IncreaseLimitText ==
    <<32, 100, 105, 103, 105, 116, 115, 59, 32, 117, 115, 101, 32, 115, 121, 115, 46, 115, 101,
      116, 95, 105, 110, 116, 95, 109, 97, 120, 95, 115, 116, 114, 95, 100, 105, 103, 105, 116,
      115, 40, 41, 32, 116, 111, 32, 105, 110, 99, 114, 101, 97, 115, 101, 32, 116, 104, 101, 32,
      108, 105, 109, 105, 116>>

\* str(e) of the ValueError int() raises on a literal of n digits, n too many
IntLimitMsg(n) ==
    ExceedsLimitText \o Decimal(MaxStrDigits) \o ValueHasText \o Decimal(n)
    \o IncreaseLimitText

\* str(e) of the ValueError of int(s), for the s without IsInt(s): the scan
\* of the digits comes first, then their number, then what follows them
IntError(s) ==
    LET r == DigitRun(Unsigned(s))
    IN  IF RunOk(r) /\ NumDigits(r) > MaxStrDigits
        THEN IntLimitMsg(NumDigits(r))
        ELSE IntErrorMsg(s)

\* (variant: the separator forgotten)
PhysicalIdNoSeparator(d, m) == d \o ToString(m)

\* f"{domain_id}_{str(idle_mins)}"
PhysicalId(d, m) == d \o "_" \o ToString(m)

\* the scripts, as the pieces str.replace tells apart: text and placeholder
Placeholder == "__AUTO_STOP_IDLE_TIME__"

AUTO_STOP_COMMAND_TEMPLATE ==
    <<"ASI_VERSION=0.3.1 ... $PYTHON_SCRIPT_PATH --time ", Placeholder,
      " --region $AWS_DEFAULT_REGION >> $LOG_FILE'\" | sudo crontab -\n">>

LCC_TEMPLATE == <<"#!/bin/bash ... docker-compose-plugin\n">>

\* template.replace(old, new)
Replace(template, old, new) ==
    [i \in 1..Len(template) |-> IF template[i] = old THEN new ELSE template[i]]

\* (variant: the minutes substituted without the conversion to seconds)
BuildContentInMinutes(m) ==
    IF m > 0
    THEN LCC_TEMPLATE \o <<"\n">>
         \o Replace(AUTO_STOP_COMMAND_TEMPLATE, Placeholder, ToString(m))
    ELSE LCC_TEMPLATE

\* the script create_lifecycle_config assembles (before base64)
BuildContent(m) ==
    IF m > 0
    THEN LCC_TEMPLATE \o <<"\n">>
         \o Replace(AUTO_STOP_COMMAND_TEMPLATE, Placeholder, ToString(60 * m))
    ELSE LCC_TEMPLATE

\* the ARN the control plane gives the configuration of that name (the name
\* written as its code points)
ArnOf(name) == "arn:aws:sagemaker:studio-lifecycle-config/" \o ToString(name)

----------------------------------------------------------------------------
(* Exceptions, by type and str(e) *)

Exc(type, msg) == [type |-> type, msg |-> msg]

UnsupportedMutation ==
    Exc("ValueError",
        "The update of 'AutoStopIdleTimeInMinutes' is not supported. Please recreate the stack instead.")

MissingPhysicalId == Exc("KeyError", "'PhysicalResourceId'")

DomainFailure(s) == Exc("RuntimeError", "Space is in '" \o s \o "' state.")

ClientFault(op) == Exc("ClientError", "An error occurred when calling " \o op)

ResourceNotFound(name) ==
    Exc("ResourceNotFound", "No such configuration " \o ToString(name))

ResourceInUse(name) ==
    Exc("ResourceInUse", "Configuration already exists " \o ToString(name))

----------------------------------------------------------------------------
(* Notifications: cfnresponse.send(event, context, status, data, id, reason) *)

SUCCESS == "SUCCESS"
FAILED == "FAILED"

Notice(st, data, id, reason) ==
    [Status |-> st, Data |-> data, PhysicalResourceId |-> id, Reason |-> reason]

\* (variant: the failure reported under the freshly derived id)
FailureNoticeDerivedId(ev, e) ==
    Notice(FAILED, {<<"Error", e.msg>>},
           Some(PhysicalId(ev.ResourceProperties.DomainId,
                           IntOf(ev.ResourceProperties.AutoStopIdleTimeInMinutes))),
           Some(e.msg))

\* send_failure(event, context, e)
FailureNotice(ev, e) ==
    Notice(FAILED, {<<"Error", e.msg>>}, ev.PhysicalResourceId, Some(e.msg))

\* send_success(event, context, data, physical_resource_id)
SuccessNotice(data, id) == Notice(SUCCESS, data, Some(id), None)

----------------------------------------------------------------------------
(* Decisions of the handler *)

\* (variant: the derived id compared with itself)
IdChangedNever(id, ev) == id # id

\* (variant: the comparison inverted)
IdChangedInverted(id, ev) == id = ev.PhysicalResourceId[1]

\* line 117: physical_resource_id != event["PhysicalResourceId"]
IdChanged(id, ev) == id # ev.PhysicalResourceId[1]

\* (variant: the waiter also returns while the domain is still updating)
ReturnsWhileUpdating(s) == s \in {"InService", "Updating"}

\* lines 183-188: what the waiter does with a status
Returns(s) == s = "InService"

\* (variant: Delete_Failed left out of the failure statuses)
FatalWithoutDeleteFailed(s) == s \in {"Failed", "Update_Failed"}

Fatal(s) == s \in {"Failed", "Update_Failed", "Delete_Failed"}

\* line 131: lifecycle_config_name in lifecycle_config_names
Listed(name, names) == name \in names

\* (variant: no exception of the delete call is swallowed)
SwallowedNothing(e) == FALSE

\* lines 163-168: the exceptions delete_lifecycle_config swallows
Swallowed(e) == e.type = "ResourceNotFound"

\* the first page of the list answer: every configuration when they fit on
\* one page, otherwise PageSize of them (which ones is the control plane's
\* choice of order)
FirstPages(all) ==
    {page \in SUBSET all :
        Cardinality(page) = IF Cardinality(all) < PageSize
                            THEN Cardinality(all) ELSE PageSize}

Call(op, arg, result) == <<op, arg, result>>

Ops(p) == {calls[p][i][1] : i \in 1..Len(calls[p])}

Polls(p) == Cardinality({i \in 1..Len(calls[p]) : calls[p][i][1] = "describe_domain"})

NoPrev == [n |-> 0, sent |-> <<>>, calls |-> <<>>]

----------------------------------------------------------------------------
(* State machine *)

Init ==
    /\ pc = [p \in Procs |-> "idle"]
    /\ event = [p \in Procs |-> None]
    /\ domain_id = [p \in Procs |-> None]
    /\ lifecycle_config_name = [p \in Procs |-> None]
    /\ idle_mins = [p \in Procs |-> None]
    /\ physical_resource_id = [p \in Procs |-> None]
    /\ lcc = [p \in Procs |-> None]
    /\ res = [p \in Procs |-> None]
    /\ status = [p \in Procs |-> None]
    /\ calls = [p \in Procs |-> <<>>]
    /\ out = [p \in Procs |-> None]
    /\ sent = [p \in Procs |-> <<>>]
    /\ raised = [p \in Procs |-> None]
    /\ prev = [p \in Procs |-> NoPrev]
    /\ start = [p \in Procs |-> None]
    /\ overlap = [p \in Procs |-> FALSE]
    /\ configs = {}
    /\ docker = [d \in DomainIds |-> FALSE]
    /\ created = None

\* the invocation r is between its entry and the delivery of its notification
Running(r) == pc[r] \notin {"idle", "done"}

\* the invocation r works on the domain d or on the configuration n
SameResource(r, d, n) == domain_id[r] = Some(d) \/ lifecycle_config_name[r] = Some(n)

\* the except clause of lambda_handler (lines 136-137): send_failure is
\* entered with the exception
Fail(p, e) ==
    /\ out' = [out EXCEPT ![p] = Some(FailureNotice(event[p][1], e))]
    /\ pc' = [pc EXCEPT ![p] = "send"]
    /\ UNCHANGED <<sent, created>>

\* send_success is entered as the last statement of a branch
Succeed(p, data) ==
    /\ out' = [out EXCEPT ![p] = Some(SuccessNotice(data, physical_resource_id[p][1]))]
    /\ pc' = [pc EXCEPT ![p] = "send"]
    /\ UNCHANGED <<sent, created>>

\* lambda_handler, lines 98-131 up to the branch's first control-plane call
Enter(p, e, pv) ==
    LET raw == e.ResourceProperties.AutoStopIdleTimeInMinutes
        d == e.ResourceProperties.DomainId
        n == Lower(e.ResourceProperties.LifecycleConfigName)
    IN  /\ event' = [event EXCEPT ![p] = Some(e)]
        /\ prev' = [prev EXCEPT ![p] = pv]
        /\ start' = [start EXCEPT ![p] = Some([exists |-> n \in configs,
                                               docker |-> docker[d],
                                               count |-> IF e.RequestType = "Delete"
                                                         THEN Cardinality(configs)
                                                         ELSE 0])]
        /\ overlap' = [q \in Procs |->
                         IF q = p
                         THEN \E r \in Procs \ {p} : Running(r) /\ SameResource(r, d, n)
                         ELSE overlap[q] \/ (event[q] # None /\ SameResource(q, d, n))]
        /\ calls' = [calls EXCEPT ![p] = <<>>]
        /\ lcc' = [lcc EXCEPT ![p] = None]
        /\ res' = [res EXCEPT ![p] = None]
        /\ status' = [status EXCEPT ![p] = None]
        /\ sent' = [sent EXCEPT ![p] = <<>>]
        /\ domain_id' = [domain_id EXCEPT ![p] = Some(d)]
        /\ lifecycle_config_name' = [lifecycle_config_name EXCEPT ![p] = Some(n)]
        /\ UNCHANGED <<plane, created>>
        /\ IF ~IsInt(raw)
           THEN \* int() raises outside the try block
                /\ raised' = [raised EXCEPT ![p] = Some(IntError(raw))]
                /\ idle_mins' = [idle_mins EXCEPT ![p] = None]
                /\ physical_resource_id' = [physical_resource_id EXCEPT ![p] = None]
                /\ out' = [out EXCEPT ![p] = None]
                /\ pc' = [pc EXCEPT ![p] = "done"]
           ELSE LET m == IntOf(raw)
                    id == PhysicalId(d, m)
                IN  /\ raised' = [raised EXCEPT ![p] = None]
                    /\ idle_mins' = [idle_mins EXCEPT ![p] = Some(m)]
                    /\ physical_resource_id' = [physical_resource_id EXCEPT ![p] = Some(id)]
                    /\ CASE e.RequestType = "Create" ->
                              /\ out' = [out EXCEPT ![p] = None]
                              /\ pc' = [pc EXCEPT ![p] = "create"]
                         [] e.RequestType = "Update" ->
                              IF e.PhysicalResourceId = None
                              THEN /\ pc' = [pc EXCEPT ![p] = "send"]
                                   /\ out' = [out EXCEPT ![p] =
                                                Some(FailureNotice(e, MissingPhysicalId))]
                              ELSE IF IdChanged(id, e)
                              THEN /\ pc' = [pc EXCEPT ![p] = "send"]
                                   /\ out' = [out EXCEPT ![p] =
                                                Some(FailureNotice(e, UnsupportedMutation))]
                              ELSE /\ out' = [out EXCEPT ![p] = None]
                                   /\ pc' = [pc EXCEPT ![p] = "describe"]
                         [] e.RequestType = "Delete" ->
                              /\ out' = [out EXCEPT ![p] = None]
                              /\ pc' = [pc EXCEPT ![p] = "list"]
                         [] OTHER ->
                              \* no branch matches: the handler returns
                              /\ out' = [out EXCEPT ![p] = None]
                              /\ pc' = [pc EXCEPT ![p] = "done"]

\* the provisioning engine invokes the handler with an event
Invoke(p) ==
    /\ pc[p] = "idle"
    /\ \E e \in Events : Enter(p, e, NoPrev)

\* the provisioning engine delivers the same event again
Redeliver(p) ==
    /\ pc[p] = "done"
    /\ prev[p].n < MaxRedeliveries
    /\ Enter(p, event[p][1],
             [n |-> prev[p].n + 1, sent |-> sent[p], calls |-> calls[p]])

\* the invocation is over and its state is gone
Return(p) ==
    /\ pc[p] = "done"
    /\ pc' = [pc EXCEPT ![p] = "idle"]
    /\ event' = [event EXCEPT ![p] = None]
    /\ domain_id' = [domain_id EXCEPT ![p] = None]
    /\ lifecycle_config_name' = [lifecycle_config_name EXCEPT ![p] = None]
    /\ idle_mins' = [idle_mins EXCEPT ![p] = None]
    /\ physical_resource_id' = [physical_resource_id EXCEPT ![p] = None]
    /\ lcc' = [lcc EXCEPT ![p] = None]
    /\ res' = [res EXCEPT ![p] = None]
    /\ status' = [status EXCEPT ![p] = None]
    /\ calls' = [calls EXCEPT ![p] = <<>>]
    /\ out' = [out EXCEPT ![p] = None]
    /\ sent' = [sent EXCEPT ![p] = <<>>]
    /\ raised' = [raised EXCEPT ![p] = None]
    /\ prev' = [prev EXCEPT ![p] = NoPrev]
    /\ start' = [start EXCEPT ![p] = None]
    /\ overlap' = [overlap EXCEPT ![p] = FALSE]
    /\ UNCHANGED <<plane, created>>

\* the invocation's record of one control-plane call and how it ended
Called(p, op, arg, result) ==
    calls' = [calls EXCEPT ![p] = Append(@, Call(op, arg, result))]

\* (variant: the success reported as soon as the configuration is created)
CreateConfigEarlySuccess(p) ==
    /\ pc[p] = "create"
    /\ LET name == lifecycle_config_name[p][1]
           op == "create_studio_lifecycle_config"
       IN  /\ lcc' = [lcc EXCEPT ![p] = Some(BuildContent(idle_mins[p][1]))]
           /\ UNCHANGED <<event, locals, status, raised, prev, docker>>
           /\ IF name \in configs
              THEN /\ Called(p, op, name, "ResourceInUse")
                   /\ Fail(p, ResourceInUse(name))
                   /\ UNCHANGED <<res, configs>>
              ELSE /\ Called(p, op, name, "ok")
                   /\ configs' = configs \cup {name}
                   /\ res' = [res EXCEPT ![p] = Some(ArnOf(name))]
                   /\ sent' = [sent EXCEPT ![p] =
                                 Append(@, SuccessNotice({<<"Arn", ArnOf(name)>>},
                                                         physical_resource_id[p][1]))]
                   /\ pc' = [pc EXCEPT ![p] = "update_domain"]
                   /\ UNCHANGED <<out, created>>

\* create_lifecycle_config (lines 149-157), called at line 109
CreateConfig(p) ==
    /\ pc[p] = "create"
    /\ LET name == lifecycle_config_name[p][1]
           op == "create_studio_lifecycle_config"
       IN  /\ lcc' = [lcc EXCEPT ![p] = Some(BuildContent(idle_mins[p][1]))]
           /\ UNCHANGED <<event, locals, status, raised, prev, docker>>
           /\ \E fault \in BOOLEAN :
                IF fault
                THEN /\ Called(p, op, name, "ClientError")
                     /\ Fail(p, ClientFault(op))
                     /\ UNCHANGED <<res, configs>>
                ELSE IF name \in configs
                THEN /\ Called(p, op, name, "ResourceInUse")
                     /\ Fail(p, ResourceInUse(name))
                     /\ UNCHANGED <<res, configs>>
                ELSE /\ Called(p, op, name, "ok")
                     /\ configs' = configs \cup {name}
                     /\ res' = [res EXCEPT ![p] = Some(ArnOf(name))]
                     /\ pc' = [pc EXCEPT ![p] = "update_domain"]
                     /\ UNCHANGED <<out, sent, created>>

\* (variant: a failed update call is tried once more)
UpdateDomainRetry(p) ==
    /\ pc[p] = "update_domain"
    /\ UNCHANGED <<event, locals, lcc, res, status, raised, prev, configs>>
    /\ LET d == domain_id[p][1]
           op == "update_domain"
       IN  \E fault \in BOOLEAN :
             IF fault
             THEN /\ Called(p, op, d, "ClientError")
                  /\ UNCHANGED docker
                  /\ IF op \in Ops(p)
                     THEN Fail(p, ClientFault(op))
                     ELSE UNCHANGED <<pc, out, sent, created>>
             ELSE /\ Called(p, op, d, "ok")
                  /\ docker' = [docker EXCEPT ![d] = TRUE]
                  /\ pc' = [pc EXCEPT ![p] = "poll"]
                  /\ UNCHANGED <<out, sent, created>>

\* update_domain, lines 172-179: the update call
UpdateDomain(p) ==
    /\ pc[p] = "update_domain"
    /\ UNCHANGED <<event, locals, lcc, res, status, raised, prev, configs>>
    /\ LET d == domain_id[p][1]
           op == "update_domain"
       IN  \E fault \in BOOLEAN :
             IF fault
             THEN /\ Called(p, op, d, "ClientError")
                  /\ Fail(p, ClientFault(op))
                  /\ UNCHANGED docker
             ELSE /\ Called(p, op, d, "ok")
                  /\ docker' = [docker EXCEPT ![d] = TRUE]
                  /\ pc' = [pc EXCEPT ![p] = "poll"]
                  /\ UNCHANGED <<out, sent, created>>

\* (variant: a failed domain update deletes the configuration again)
DescribeDomainRollback(p) ==
    /\ pc[p] = "poll"
    /\ UNCHANGED <<event, locals, lcc, res, raised, prev, docker>>
    /\ LET d == domain_id[p][1]
           op == "describe_domain"
       IN  \E s \in DomainStatuses :
             /\ Called(p, op, d, "ok")
             /\ status' = [status EXCEPT ![p] = Some(s)]
             /\ IF Returns(s)
                THEN Succeed(p, {<<"Arn", res[p][1]>>}) /\ UNCHANGED configs
                ELSE IF Fatal(s)
                THEN /\ Fail(p, DomainFailure(s))
                     /\ configs' = configs \ {lifecycle_config_name[p][1]}
                ELSE /\ Polls(p) < MaxPolls
                     /\ UNCHANGED <<pc, out, sent, created, configs>>

\* (variant: the waiter gives up after a second status that is not final)
DescribeDomainTimeout(p) ==
    /\ pc[p] = "poll"
    /\ UNCHANGED <<event, locals, lcc, res, raised, prev, plane>>
    /\ LET d == domain_id[p][1]
           op == "describe_domain"
       IN  \E s \in DomainStatuses :
             /\ Called(p, op, d, "ok")
             /\ status' = [status EXCEPT ![p] = Some(s)]
             /\ IF Returns(s)
                THEN Succeed(p, {<<"Arn", res[p][1]>>})
                ELSE IF Fatal(s)
                THEN Fail(p, DomainFailure(s))
                ELSE IF Polls(p) >= 1
                THEN Fail(p, Exc("TimeoutError", "Timed out waiting for the domain"))
                ELSE UNCHANGED <<pc, out, sent, created>>

\* update_domain, lines 180-189: one turn of the loop; on return, lines 111-112
DescribeDomain(p) ==
    /\ pc[p] = "poll"
    /\ UNCHANGED <<event, locals, lcc, res, raised, prev, docker>>
    /\ LET d == domain_id[p][1]
           op == "describe_domain"
       IN  \/ /\ Called(p, op, d, "ClientError")
              /\ Fail(p, ClientFault(op))
              /\ UNCHANGED <<status, configs>>
           \/ \E s \in DomainStatuses :
                /\ Called(p, op, d, "ok")
                /\ status' = [status EXCEPT ![p] = Some(s)]
                /\ UNCHANGED configs
                /\ IF Returns(s)
                   THEN Succeed(p, {<<"Arn", res[p][1]>>})
                   ELSE IF Fatal(s)
                   THEN Fail(p, DomainFailure(s))
                   ELSE \* time.sleep(10) and read again
                        /\ Polls(p) < MaxPolls
                        /\ UNCHANGED <<pc, out, sent, created>>

\* the Update branch, lines 121-123
DescribeConfig(p) ==
    /\ pc[p] = "describe"
    /\ UNCHANGED <<event, locals, lcc, status, raised, prev, plane>>
    /\ LET name == lifecycle_config_name[p][1]
           op == "describe_studio_lifecycle_config"
       IN  \E fault \in BOOLEAN :
             IF fault
             THEN /\ Called(p, op, name, "ClientError")
                  /\ Fail(p, ClientFault(op))
                  /\ UNCHANGED res
             ELSE IF name \notin configs
             THEN /\ Called(p, op, name, "ResourceNotFound")
                  /\ Fail(p, ResourceNotFound(name))
                  /\ UNCHANGED res
             ELSE \* res = the answer of the describe call (line 121)
                  /\ Called(p, op, name, "ok")
                  /\ res' = [res EXCEPT ![p] = Some(ArnOf(name))]
                  /\ Succeed(p, {<<"Arn", ArnOf(name)>>})

\* (variant: a configuration that is not listed is an error)
ListConfigsStrict(p) ==
    /\ pc[p] = "list"
    /\ UNCHANGED <<event, locals, lcc, res, status, raised, prev, plane>>
    /\ LET op == "list_studio_lifecycle_configs"
           name == lifecycle_config_name[p][1]
       IN  \E page \in FirstPages(configs) :
             /\ Called(p, op, "CodeEditor", "ok")
             /\ IF Listed(name, page)
                THEN /\ pc' = [pc EXCEPT ![p] = "delete"]
                     /\ UNCHANGED <<out, sent, created>>
                ELSE Fail(p, ResourceNotFound(name))

\* the Delete branch, lines 128-134, up to the delete call: the list call
\* is made once and without NextToken, so lcs is the first page of the answer
ListConfigs(p) ==
    /\ pc[p] = "list"
    /\ UNCHANGED <<event, locals, lcc, res, status, raised, prev, plane>>
    /\ LET op == "list_studio_lifecycle_configs"
       IN  \/ /\ Called(p, op, "CodeEditor", "ClientError")
              /\ Fail(p, ClientFault(op))
           \/ \E lcs \in FirstPages(configs) :
                /\ Called(p, op, "CodeEditor", "ok")
                /\ IF Listed(lifecycle_config_name[p][1], lcs)
                   THEN /\ pc' = [pc EXCEPT ![p] = "delete"]
                        /\ UNCHANGED <<out, sent, created>>
                   ELSE Succeed(p, {})

\* (variant: deleting the configuration also turns Docker access off again)
DeleteConfigDisablesDocker(p) ==
    /\ pc[p] = "delete"
    /\ UNCHANGED <<event, locals, lcc, res, status, raised, prev>>
    /\ LET name == lifecycle_config_name[p][1]
           op == "delete_studio_lifecycle_config"
       IN  /\ Called(p, op, name, IF name \in configs THEN "ok" ELSE "ResourceNotFound")
           /\ configs' = configs \ {name}
           /\ docker' = [docker EXCEPT ![domain_id[p][1]] = FALSE]
           /\ Succeed(p, {})

\* delete_lifecycle_config (lines 160-168), then lines 133-134
DeleteConfig(p) ==
    /\ pc[p] = "delete"
    /\ UNCHANGED <<event, locals, lcc, res, status, raised, prev, docker>>
    /\ LET name == lifecycle_config_name[p][1]
           op == "delete_studio_lifecycle_config"
       IN  \E fault \in BOOLEAN :
             LET e == IF fault THEN ClientFault(op) ELSE ResourceNotFound(name)
             IN  IF fault \/ name \notin configs
                 THEN /\ Called(p, op, name, e.type)
                      /\ UNCHANGED configs
                      /\ IF Swallowed(e) THEN Succeed(p, {}) ELSE Fail(p, e)
                 ELSE /\ Called(p, op, name, "ok")
                      /\ configs' = configs \ {name}
                      /\ Succeed(p, {})

\* cfnresponse.send (lines 142 and 146): the notification reaches the engine,
\* which keeps the properties and the physical id of what a Create made
Send(p) ==
    /\ pc[p] = "send"
    /\ sent' = [sent EXCEPT ![p] = Append(@, out[p][1])]
    /\ out' = [out EXCEPT ![p] = None]
    /\ pc' = [pc EXCEPT ![p] = "done"]
    /\ created' =
         IF out[p][1].Status # SUCCESS THEN created
         ELSE CASE event[p][1].RequestType = "Create" ->
                     Some([ResourceProperties |-> event[p][1].ResourceProperties,
                           PhysicalResourceId |-> physical_resource_id[p][1]])
                [] event[p][1].RequestType = "Delete" -> None
                [] OTHER -> created
    /\ UNCHANGED <<event, locals, lcc, res, status, calls, raised, prev, plane>>

Step(p) ==
    \/ Invoke(p)
    \/ Redeliver(p)
    \/ Return(p)
    \/ CreateConfig(p)
    \/ UpdateDomain(p)
    \/ DescribeDomain(p)
    \/ DescribeConfig(p)
    \/ ListConfigs(p)
    \/ DeleteConfig(p)
    \/ Send(p)

\* one invocation at a time: the engine serializes the events of a resource
Next == \E p \in SerialProcs : Step(p)

Spec == Init /\ [][Next]_vars

\* the events that reach update_domain (line 110)
CreateEvents == {e \in Events : e.RequestType = "Create"}

\* the provisioning engine invokes the handler with a Create event
InvokeCreate(p) ==
    /\ pc[p] = "idle"
    /\ \E e \in CreateEvents : Enter(p, e, NoPrev)

StepCreate(p) ==
    \/ InvokeCreate(p)
    \/ Redeliver(p)
    \/ Return(p)
    \/ CreateConfig(p)
    \/ UpdateDomain(p)
    \/ DescribeDomain(p)
    \/ Send(p)

NextCreate == \E p \in SerialProcs : StepCreate(p)

\* the Create invocations, one at a time, with every call of a started
\* invocation eventually returning or raising (boto3 calls and the HTTP
\* request of cfnresponse.send are synchronous, and time.sleep(10) ends)
FairSpec ==
    /\ Init /\ [][NextCreate]_vars
    /\ \A p \in SerialProcs :
         /\ WF_vars(CreateConfig(p))
         /\ WF_vars(UpdateDomain(p))
         /\ WF_vars(DescribeDomain(p))
         /\ WF_vars(Send(p))

\* the engine invokes the handler while another invocation may be running
InvokeConc(p) ==
    /\ pc[p] = "idle"
    /\ \E e \in ConcEvents : Enter(p, e, NoPrev)

StepConc(p) ==
    \/ InvokeConc(p)
    \/ Return(p)
    \/ CreateConfig(p)
    \/ UpdateDomain(p)
    \/ DescribeDomain(p)
    \/ DescribeConfig(p)
    \/ ListConfigs(p)
    \/ DeleteConfig(p)
    \/ Send(p)

\* invocations interleaved at their control-plane calls
NextConc == \E p \in Procs : StepConc(p)

SpecConc == Init /\ [][NextConc]_vars

\* names that differ in the case of letters: "Ab" and "aB"; "A" and "a" before
\* a capital sigma; and the Greek "\u0391\u03a3" (capital alpha, capital sigma)
\* and "\u03b1\u03c3" (small alpha, small sigma)
CaseNames == {<<65, 98>>, <<97, 66>>, <<65, 931>>, <<97, 931>>, <<913, 931>>, <<945, 963>>}

\* the events of one resource under these names
NameEvents ==
    {[RequestType |-> t,
      ResourceProperties |-> [DomainId |-> "d-1",
                              LifecycleConfigName |-> n,
                              AutoStopIdleTimeInMinutes |-> <<53>>],
      PhysicalResourceId |-> IF t = "Create" THEN None ELSE Some("d-1_5")] :
        t \in {"Create", "Update", "Delete"}, n \in CaseNames}

InvokeNames(p) ==
    /\ pc[p] = "idle"
    /\ \E e \in NameEvents : Enter(p, e, NoPrev)

StepNames(p) ==
    \/ InvokeNames(p)
    \/ Return(p)
    \/ CreateConfig(p)
    \/ UpdateDomain(p)
    \/ DescribeDomain(p)
    \/ DescribeConfig(p)
    \/ ListConfigs(p)
    \/ DeleteConfig(p)
    \/ Send(p)

NextNames == \E p \in SerialProcs : StepNames(p)

\* one invocation at a time, the events differing in the case of the name
SpecNames == Init /\ [][NextNames]_vars

----------------------------------------------------------------------------
(* Vocabulary of the properties *)

Ev(p) == event[p][1]

\* the invocation p handles a request of type t whose properties parsed
Handling(p, t) == event[p] # None /\ Ev(p).RequestType = t /\ idle_mins[p] # None

Finished(p) == pc[p] = "done"

\* the branch of the invocation is over: its notification is on its way or
\* delivered
Ended(p) == pc[p] \in {"send", "done"}

\* the notifications the invocation has handed to cfnresponse.send
Reported(p) == sent[p] \o out[p]

MutatingOps ==
    {"create_studio_lifecycle_config", "delete_studio_lifecycle_config", "update_domain"}

\* an Update whose event carries a prior physical id
UpdateWithPrior(p) == Handling(p, "Update") /\ Ev(p).PhysicalResourceId # None

HasCall(log, op, result) == \E i \in 1..Len(log) : log[i][1] = op /\ log[i][3] = result

IsFailure(n) ==
    /\ n.Status = "FAILED"
    /\ \E m \in {n.Reason[k] : k \in 1..Len(n.Reason)} : n.Data = {<<"Error", m>>}

----------------------------------------------------------------------------
(* C1: every invocation that has terminated has sent a notification and has
   not let an exception escape to its caller. *)
C1_AlwaysNotifiesNeverRaises ==
    \A p \in Procs : Finished(p) => Len(sent[p]) >= 1 /\ raised[p] = None

(* C2: an Update whose recomputed physical id differs from the event's prior
   PhysicalResourceId is reported as failed with the unsupported-mutation
   reason, and no control-plane call at all has been made for it. *)
C2_ChangedIdRejectedWithoutCalls ==
    \A p \in Procs :
        (UpdateWithPrior(p) /\ physical_resource_id[p] # Ev(p).PhysicalResourceId)
        => /\ Ended(p)
           /\ calls[p] = <<>>
           /\ Len(Reported(p)) = 1
           /\ Reported(p)[1].Status = "FAILED"
           /\ Reported(p)[1].Reason =
                <<"The update of 'AutoStopIdleTimeInMinutes' is not supported. Please recreate the stack instead.">>

C2_Witness ==
    \E p \in Procs :
        /\ UpdateWithPrior(p) /\ Finished(p)
        /\ Ev(p).PhysicalResourceId = <<"d-1_0">>
        /\ physical_resource_id[p] = <<"d-1_5">>
        /\ Len(sent[p]) = 1

(* C3, as stated: every Update whose recomputed physical id equals the prior
   one ends with a success notification and only describe calls.  (Taken
   here in its most favourable case: the Update follows the Create that
   returned that id, and its describe call meets no client fault.) *)
C3_MatchingUpdateAlwaysSucceeds ==
    \A p \in Procs :
        (/\ UpdateWithPrior(p) /\ Finished(p)
         /\ created # None
         /\ Ev(p).PhysicalResourceId = <<created[1].PhysicalResourceId>>
         /\ physical_resource_id[p] = Ev(p).PhysicalResourceId
         /\ ~HasCall(calls[p], "describe_studio_lifecycle_config", "ClientError"))
        => /\ Len(sent[p]) = 1 /\ sent[p][1].Status = "SUCCESS"
           /\ Ops(p) \cap MutatingOps = {}

(* C3, amended: an Update whose recomputed physical id equals the prior one
   makes exactly one control-plane call, the describe of the lower-cased
   name; when that call returns the notification is a success carrying the
   described ARN and the unchanged physical id, and when it raises (the
   configuration does not exist, or a client fault) it is a failure. *)
C3_MatchingUpdateOnlyDescribes ==
    \A p \in Procs :
        (/\ UpdateWithPrior(p) /\ Finished(p)
         /\ physical_resource_id[p] = Ev(p).PhysicalResourceId)
        => /\ Len(calls[p]) = 1
           /\ calls[p][1][1] = "describe_studio_lifecycle_config"
           /\ calls[p][1][2] = lifecycle_config_name[p][1]
           /\ Len(sent[p]) = 1
           /\ IF calls[p][1][3] = "ok"
              THEN sent[p][1] =
                     [Status |-> "SUCCESS",
                      Data |-> {<<"Arn", ArnOf(calls[p][1][2])>>},
                      PhysicalResourceId |-> Ev(p).PhysicalResourceId,
                      Reason |-> None]
              ELSE sent[p][1].Status = "FAILED"

C3_Witness ==
    \E p \in Procs :
        /\ UpdateWithPrior(p) /\ Finished(p)
        /\ physical_resource_id[p] = Ev(p).PhysicalResourceId
        /\ HasCall(calls[p], "describe_studio_lifecycle_config", "ok")
        /\ sent[p][1].Status = "SUCCESS"

(* C4: a Delete event delivered twice in sequence, first when the
   configuration exists (the first delivery listed and deleted it) and then
   when it no longer does, is reported as a success both times. *)
C4_DeleteTwiceSucceedsTwice ==
    \A p \in Procs :
        (/\ Handling(p, "Delete") /\ Finished(p)
         /\ prev[p].n >= 1
         /\ HasCall(prev[p].calls, "delete_studio_lifecycle_config", "ok")
         /\ lifecycle_config_name[p][1] \notin configs
         /\ HasCall(calls[p], "list_studio_lifecycle_configs", "ok"))
        => /\ Len(prev[p].sent) = 1 /\ prev[p].sent[1].Status = "SUCCESS"
           /\ Len(sent[p]) = 1 /\ sent[p][1].Status = "SUCCESS"

C4_Witness ==
    \E p \in Procs :
        /\ Handling(p, "Delete") /\ Finished(p)
        /\ prev[p].n >= 1
        /\ HasCall(prev[p].calls, "delete_studio_lifecycle_config", "ok")
        /\ calls[p] = <<Call("list_studio_lifecycle_configs", "CodeEditor", "ok")>>
        /\ sent[p][1].Status = "SUCCESS"

(* C5: each status the waiter reads decides its next step: it returns (and
   the Create branch then sends its success) exactly on InService; on Failed,
   Update_Failed or Delete_Failed it raises an error whose message carries
   that status; on Pending, Updating or Deleting it neither returns nor
   raises and is about to poll again. *)
C5_WaiterFollowsStatus ==
    [][\A p \in Procs :
         (/\ pc[p] = "poll"
          /\ Len(calls'[p]) = Len(calls[p]) + 1
          /\ calls'[p][Len(calls'[p])][3] = "ok")
         => LET s == status'[p][1]
            IN  /\ sent'[p] = <<>>
                /\ (pc'[p] = "send" /\ out'[p] # None /\ out'[p][1].Status = "SUCCESS")
                   <=> s = "InService"
                /\ s \in {"Failed", "Update_Failed", "Delete_Failed"}
                   => /\ pc'[p] = "send"
                      /\ out'[p] # None
                      /\ out'[p][1].Status = "FAILED"
                      /\ out'[p][1].Reason = <<"Space is in '" \o s \o "' state.">>
                /\ s \in {"Pending", "Updating", "Deleting"}
                   => pc'[p] = "poll" /\ out'[p] = None /\ raised'[p] = None]_vars

C5_Witness ==
    \E p \in Procs :
        /\ Finished(p)
        /\ Polls(p) >= 2
        /\ status[p] = <<"Delete_Failed">>
        /\ sent[p][1].Status = "FAILED"

(* C6: the success notification of a Create carries the physical id
   "<domainId>_<minutes>", the minutes in decimal, and as data the ARN the
   create call returned. *)
C6_CreateSuccessPayload ==
    \A p \in Procs :
        (Handling(p, "Create") /\ sent[p] # <<>> /\ sent[p][1].Status = "SUCCESS")
        => /\ HasCall(calls[p], "create_studio_lifecycle_config", "ok")
           /\ sent[p] =
                <<[Status |-> "SUCCESS",
                   Data |-> {<<"Arn", res[p][1]>>},
                   PhysicalResourceId |->
                       <<Ev(p).ResourceProperties.DomainId \o "_"
                           \o ToString(idle_mins[p][1])>>,
                   Reason |-> None]>>
           /\ res[p][1] = ArnOf(calls[p][1][2])

C6_Witness ==
    \E p \in Procs :
        /\ Handling(p, "Create") /\ Finished(p)
        /\ Ev(p).ResourceProperties.AutoStopIdleTimeInMinutes = <<48, 53>>
        /\ Ev(p).ResourceProperties.DomainId = "d-1"
        /\ sent[p] # <<>> /\ sent[p][1].Status = "SUCCESS"
        /\ sent[p][1].PhysicalResourceId = <<"d-1_5">>

(* C7: an Update that follows the Create of the same resource (its prior
   physical id is the one that Create returned) is rejected as an unsupported
   mutation exactly when AutoStopIdleTimeInMinutes differs from the value at
   creation. *)
C7_RejectedIffMinutesChanged ==
    \A p \in Procs :
        (/\ UpdateWithPrior(p) /\ Finished(p)
         /\ created # None
         /\ Ev(p).PhysicalResourceId = <<created[1].PhysicalResourceId>>)
        => ((calls[p] = <<>> /\ sent[p][1].Status = "FAILED")
            <=> idle_mins[p][1] #
                  IntOf(created[1].ResourceProperties.AutoStopIdleTimeInMinutes))

(* C8: an invocation sends at most one notification, so never both a
   success and a failure. *)
C8_AtMostOneNotification ==
    \A p \in Procs :
        /\ Len(Reported(p)) <= 1
        /\ ~(\E i, j \in 1..Len(Reported(p)) :
               Reported(p)[i].Status = "SUCCESS" /\ Reported(p)[j].Status = "FAILED")

C8_Witness ==
    \E p \in Procs :
        /\ Handling(p, "Create") /\ Finished(p)
        /\ HasCall(calls[p], "create_studio_lifecycle_config", "ok")
        /\ HasCall(calls[p], "update_domain", "ok")
        /\ Len(sent[p]) = 1 /\ sent[p][1].Status = "FAILED"

(* C9: every failure notification has status FAILED, data {Error: m} and
   reason m for one message m, and its physical id is the one the event
   declares, or none when the event declares none. *)
C9_FailureNotificationShape ==
    \A p \in Procs : \A i \in 1..Len(sent[p]) :
        sent[p][i].Status # "SUCCESS"
        => /\ IsFailure(sent[p][i])
           /\ sent[p][i].PhysicalResourceId = Ev(p).PhysicalResourceId

C9_Witness ==
    \E p \in Procs :
        /\ Handling(p, "Create") /\ Finished(p)
        /\ Ev(p).PhysicalResourceId = None
        /\ physical_resource_id[p] = <<"d-2_5">>
        /\ sent[p] # <<>> /\ sent[p][1].Status = "FAILED"
        /\ sent[p][1].PhysicalResourceId = None

(* C10: when a Create has created the configuration and the domain update
   then fails (the update call raises, or a failure status is read), the
   invocation has ended with a failure notification, has issued no delete
   call, and the configuration still exists. *)
C10_NoRollbackOnCreate ==
    \A p \in Procs :
        (/\ Handling(p, "Create")
         /\ HasCall(calls[p], "create_studio_lifecycle_config", "ok")
         /\ \/ HasCall(calls[p], "update_domain", "ClientError")
            \/ /\ status[p] # None
               /\ status[p][1] \in {"Failed", "Update_Failed", "Delete_Failed"})
        => /\ Ended(p)
           /\ Len(Reported(p)) = 1 /\ Reported(p)[1].Status = "FAILED"
           /\ "delete_studio_lifecycle_config" \notin Ops(p)
           /\ lifecycle_config_name[p][1] \in configs

C10_Witness ==
    \E p \in Procs :
        /\ Handling(p, "Create") /\ Finished(p)
        /\ HasCall(calls[p], "create_studio_lifecycle_config", "ok")
        /\ status[p] = <<"Update_Failed">>
        /\ lifecycle_config_name[p][1] \in configs
        /\ sent[p][1].Status = "FAILED"

(* C11: a Create that has started waiting for the domain eventually sends
   its one notification (the domain reports a final status, or a call
   raises); and there is no timeout: after any number of polls, a status
   Pending, Updating or Deleting leaves the waiter polling with nothing
   sent. *)
C11_WaiterRunsToTerminal ==
    /\ \A p \in Procs : (pc[p] = "poll") ~> (pc[p] = "done" /\ Len(sent[p]) = 1)
    /\ [](\A p \in Procs :
            (/\ calls[p] # <<>>
             /\ calls[p][Len(calls[p])][1] = "describe_domain"
             /\ calls[p][Len(calls[p])][3] = "ok"
             /\ status[p][1] \in {"Pending", "Updating", "Deleting"})
            => pc[p] = "poll" /\ Reported(p) = <<>> /\ raised[p] = None)

C11_Witness ==
    \E p \in Procs :
        /\ pc[p] = "poll"
        /\ Polls(p) >= 2
        /\ status[p] = <<"Pending">>
        /\ sent[p] = <<>>

CountOf(p, op) == Cardinality({i \in 1..Len(calls[p]) : calls[p][i][1] = op})

LastCall(p) == calls[p][Len(calls[p])]

ConfigOps ==
    {"create_studio_lifecycle_config", "describe_studio_lifecycle_config",
     "delete_studio_lifecycle_config"}

DomainOps == {"update_domain", "describe_domain"}

(* C12: the content assembled for idle minutes 0 is exactly the base script;
   for N > 0 it is the base script, a newline and the auto-stop script with
   the placeholder replaced by the decimal of 60*N, and no placeholder is
   left (5 minutes give 300, 12 minutes give 720). *)
C12_ContentByIdleMinutes ==
    \A p \in Procs :
        lcc[p] # None
        => LET m == idle_mins[p][1]
               c == lcc[p][1]
           IN  /\ m = 0 => c = LCC_TEMPLATE
               /\ m > 0 =>
                    /\ c = LCC_TEMPLATE \o <<"\n">>
                           \o <<AUTO_STOP_COMMAND_TEMPLATE[1], ToString(60 * m),
                                AUTO_STOP_COMMAND_TEMPLATE[3]>>
                    /\ \A i \in 1..Len(c) : c[i] # "__AUTO_STOP_IDLE_TIME__"
               /\ m = 5 => c[Len(c) - 1] = "300"
               /\ m = 12 => c[Len(c) - 1] = "720"

C12_Witness ==
    \E p \in Procs :
        /\ lcc[p] # None
        /\ idle_mins[p] = <<12>>
        /\ Len(lcc[p][1]) = Len(LCC_TEMPLATE) + 1 + Len(AUTO_STOP_COMMAND_TEMPLATE)
        /\ lcc[p][1][Len(lcc[p][1]) - 1] = "720"

Alone(p) ==
    /\ event[p] # None
    /\ ~overlap[p]
    /\ \A q \in Procs \ {p} :
          event[q] = None
          \/ (/\ domain_id[q] # domain_id[p]
              /\ lifecycle_config_name[q] # lifecycle_config_name[p])

AloneExists(p) ==
    IF HasCall(calls[p], "create_studio_lifecycle_config", "ok") THEN TRUE
    ELSE IF HasCall(calls[p], "delete_studio_lifecycle_config", "ok") THEN FALSE
    ELSE start[p][1].exists

AloneDocker(p) == start[p][1].docker \/ HasCall(calls[p], "update_domain", "ok")

(* C13: an invocation interleaved only with invocations for another
   configuration and another domain gets from every call the answer it gets
   when it runs alone from the state it started in (a Delete running alone
   skips the delete call only when its configuration does not exist or the
   list answer does not fit on one page), leaves its configuration and its
   domain's Docker setting as its own calls left them, and sends the one
   notification those answers determine. *)
C13_DifferentResourcesDoNotInteract ==
    \A p \in Procs :
        Alone(p)
        => LET n == lifecycle_config_name[p][1]
               d == domain_id[p][1]
               st == start[p][1]
           IN  /\ (n \in configs) = AloneExists(p)
               /\ docker[d] = AloneDocker(p)
               /\ \A i \in 1..Len(calls[p]) :
                     LET c == calls[p][i]
                     IN  /\ c[1] = "create_studio_lifecycle_config"
                            => /\ c[3] = "ResourceInUse" => st.exists
                               /\ c[3] = "ok" => ~st.exists
                         /\ c[1] = "describe_studio_lifecycle_config"
                            => /\ c[3] = "ResourceNotFound" => ~st.exists
                               /\ c[3] = "ok" => st.exists
                         /\ c[1] = "delete_studio_lifecycle_config"
                            => st.exists /\ c[3] # "ResourceNotFound"
               /\ (Finished(p) /\ Ops(p) = {"list_studio_lifecycle_configs"}
                   /\ LastCall(p)[3] = "ok")
                  => ~st.exists \/ st.count > PageSize
               /\ Finished(p)
                  => /\ Len(sent[p]) = 1
                     /\ raised[p] = None
                     /\ sent[p][1].Status = "SUCCESS"
                        <=> /\ LastCall(p)[3] = "ok"
                            /\ LastCall(p)[1] = "describe_domain"
                               => status[p] = <<"InService">>

(* C14: within a Create, update_domain and describe_domain are called only
   after the create call returned (never after it raised), describe_domain
   only after the update call returned, and the success notification is sent
   only when the last call is a describe_domain that answered InService. *)
C14_CreateOrdering ==
    \A p \in Procs :
        Handling(p, "Create")
        => /\ \A i \in 1..Len(calls[p]) :
                /\ calls[p][i][1] \in DomainOps
                   => i > 1 /\ calls[p][1] = <<"create_studio_lifecycle_config",
                                               lifecycle_config_name[p][1], "ok">>
                /\ calls[p][i][1] = "describe_domain"
                   => i > 2 /\ calls[p][2] = <<"update_domain", domain_id[p][1], "ok">>
           /\ (Reported(p) # <<>> /\ Reported(p)[1].Status = "SUCCESS")
              => /\ Len(calls[p]) >= 3
                 /\ LastCall(p) = <<"describe_domain", domain_id[p][1], "ok">>
                 /\ status[p] = <<"InService">>

C14_Witness ==
    \E p \in Procs :
        /\ Handling(p, "Create") /\ Finished(p)
        /\ Polls(p) >= 2
        /\ status[p] = <<"InService">>
        /\ sent[p][1].Status = "SUCCESS"

(* C15: when an invocation at a time handles a Delete and reports success,
   no configuration of the lower-cased name exists afterwards; the delete
   call was made exactly when the configuration existed at the Delete. *)
C15_DeleteLeavesNoConfiguration ==
    \A p \in Procs :
        (/\ Handling(p, "Delete") /\ Finished(p)
         /\ sent[p] # <<>> /\ sent[p][1].Status = "SUCCESS")
        => /\ lifecycle_config_name[p][1] \notin configs
           /\ start[p][1].exists <=> "delete_studio_lifecycle_config" \in Ops(p)

(* C16: a delete call that raises ResourceNotFound, as when another Delete
   removed the configuration after this invocation listed it, is followed by
   the success notification; a delete call that raises anything else is
   followed by the failure notification carrying that exception. *)
C16_DeleteToleratesVanishedResource ==
    \A p \in Procs :
        (calls[p] # <<>> /\ LastCall(p)[1] = "delete_studio_lifecycle_config")
        => /\ Ended(p)
           /\ raised[p] = None
           /\ LastCall(p)[3] \in {"ResourceNotFound", "ok"}
              => Reported(p) = <<SuccessNotice({}, physical_resource_id[p][1])>>
           /\ LastCall(p)[3] = "ClientError"
              => Reported(p) = <<FailureNotice(Ev(p),
                                ClientFault("delete_studio_lifecycle_config"))>>

C16_Witness ==
    \E p \in Procs : \E q \in Procs \ {p} :
        /\ Handling(p, "Delete") /\ Handling(q, "Delete")
        /\ Finished(p)
        /\ lifecycle_config_name[p] = lifecycle_config_name[q]
        /\ start[p][1].exists /\ start[q][1].exists
        /\ HasCall(calls[q], "delete_studio_lifecycle_config", "ok")
        /\ calls[p] # <<>>
        /\ LastCall(p) = <<"delete_studio_lifecycle_config",
                           lifecycle_config_name[p][1], "ResourceNotFound">>
        /\ sent[p][1].Status = "SUCCESS"

(* C17: within one invocation every control-plane operation other than
   describe_domain is called at most once, also after it raised. *)
C17_NoRetries ==
    \A p \in Procs : \A i \in 1..Len(calls[p]) :
        calls[p][i][1] # "describe_domain" => CountOf(p, calls[p][i][1]) = 1

C17_Witness ==
    \E p \in Procs :
        /\ Finished(p)
        /\ HasCall(calls[p], "update_domain", "ClientError")
        /\ CountOf(p, "update_domain") = 1
        /\ sent[p][1].Status = "FAILED"

\* the upper-case and the lower-case form of one of the letters A to Z
AsciiLetterPair(a, b) == a \in 65..90 /\ b = a + 32

\* an upper-case letter and its lower-case letter
LetterPair(a, b) == a \in LowerDomain /\ b = LowerOf[a]

\* the names x and y differ only in the case of letters A to Z
DifferInAsciiCaseOnly(x, y) ==
    /\ Len(x) = Len(y)
    /\ \A i \in 1..Len(x) :
          x[i] = y[i] \/ AsciiLetterPair(x[i], y[i]) \/ AsciiLetterPair(y[i], x[i])

\* the names x and y differ only in the case of letters
DifferInCaseOnly(x, y) ==
    /\ Len(x) = Len(y)
    /\ \A i \in 1..Len(x) :
          x[i] = y[i] \/ LetterPair(x[i], y[i]) \/ LetterPair(y[i], x[i])

\* the invocation p uses the configuration name n, and no other, wherever it
\* uses one: as its local name, in its create, describe and delete calls, in
\* the membership test on the list answer, and in the data of its success
UsesName(p, n) ==
    /\ lifecycle_config_name[p] = <<n>>
    /\ \A i \in 1..Len(calls[p]) :
          calls[p][i][1] \in ConfigOps => calls[p][i][2] = n
    /\ pc[p] = "delete" => n \in configs
    /\ \A i \in 1..Len(Reported(p)) :
          (Reported(p)[i].Status = "SUCCESS" /\ Reported(p)[i].Data # {})
          => Reported(p)[i].Data = {<<"Arn", ArnOf(n)>>}

(* C18, as stated: an invocation uses, wherever it uses the configuration
   name, the name that the handler derives from any name differing from its
   event's name only in the case of letters; so two events that differ only
   in the letter case of the name make the same calls and send the same
   notification from the same state. *)
C18_CaseVariantsUseOneName ==
    \A p \in Procs :
        event[p] # None
        => \A other \in CaseNames :
              DifferInCaseOnly(Ev(p).ResourceProperties.LifecycleConfigName, other)
              => UsesName(p, Lower(other))

(* C18, amended: an invocation uses, wherever it uses the configuration
   name, the str.lower() of its event's name, which is also the name the
   handler derives from any name differing from it only in the case of the
   letters A to Z; so two events that differ only in the case of these
   letters make the same calls and send the same notification from the same
   state. *)
C18_AsciiCaseVariantsUseOneName ==
    \A p \in Procs :
        event[p] # None
        => \A other \in CaseNames :
              DifferInAsciiCaseOnly(Ev(p).ResourceProperties.LifecycleConfigName, other)
              => UsesName(p, Lower(other))

C18_Witness ==
    \E p \in Procs :
        /\ Handling(p, "Delete") /\ Finished(p)
        /\ Ev(p).ResourceProperties.LifecycleConfigName = <<65, 931>>
        /\ DifferInAsciiCaseOnly(<<65, 931>>, <<97, 931>>)
        /\ calls[p] = <<Call("list_studio_lifecycle_configs", "CodeEditor", "ok"),
                        Call("delete_studio_lifecycle_config", <<97, 962>>, "ok")>>
        /\ sent[p][1].Status = "SUCCESS"

(* C19: an Update or a Delete makes no update_domain and no describe_domain
   call and no step of it changes the Docker setting of any domain; while the
   engine holds a created resource, the setting its Create enabled is still
   enabled, and a Delete leaves it as it found it. *)
C19_OnlyCreateTouchesDomain ==
    /\ [](\A p \in Procs :
            /\ (Handling(p, "Update") \/ Handling(p, "Delete"))
               => /\ Ops(p) \cap DomainOps = {}
                  /\ docker[domain_id[p][1]] = start[p][1].docker
            /\ created # None => docker[created[1].ResourceProperties.DomainId])
    /\ [][\A p \in Procs :
            (pc[p] \in {"describe", "list", "delete"} /\ pc'[p] # pc[p])
            => docker' = docker]_vars

C19_Witness ==
    \E p \in Procs :
        /\ Handling(p, "Delete") /\ Finished(p)
        /\ HasCall(calls[p], "delete_studio_lifecycle_config", "ok")
        /\ start[p][1].docker
        /\ docker[domain_id[p][1]]
        /\ sent[p][1].Status = "SUCCESS"

====
